---- MODULE Spec2Model ----
(***************************************************************************)
(* Model of drops-client: the catalog reconciler and config store          *)
(* (client_config.rs), the download handler and pipeline                   *)
(* (handlers/download.rs) and the instance lock (ipc.rs).                  *)
(*                                                                         *)
(* Option<T> values are sequences: None is <<>> and Some(x) is <<x>>.      *)
(* Result<(), Error> values are records with an ok field.                  *)
(***************************************************************************)
EXTENDS Integers, Sequences, FiniteSets, TLC

VARIABLES
    config,      \* blackboard.config : ClientConfig, the in-memory document
    disk,        \* content of config.json as last written by ClientConfig::save
    ret,         \* what the last config operation returned to its caller
    syncs,       \* number of catalog merges performed so far
    downloads,   \* DownloadMessageHandler.downloads : Vec<Download>
    pipes,       \* the running download streams, one per subscription id
    msgs,        \* messages of streams and tasks on their way to update
    screen,      \* blackboard.screen
    selected_game, \* blackboard.selected_game : Option<Game>
    selected_channel, \* blackboard.selected_channel : Option<String>
    app,         \* "running", or "panicked" once update has panicked
    lock_path,   \* the file drops.lock names: an inode, or 0 when it is absent
    inode_content, \* what each inode holds
    inode_lock,  \* the process holding the exclusive lock of each inode, or 0
    procs,       \* each process: its place in main and its open lock file
    clients,     \* each secondary instance: its arguments and how try_send_args ended
    bus,         \* payloads sent to the label "server" and not yet received
    server,      \* the primary's receive loop: its place, arrivals and events
    launcher     \* DropsClient: the game asked for on the command line, what
                 \* handle_args_game_running last found and the games started
                 \* for it; blackboard.is_playing

config_vars == <<config, disk, ret, syncs>>
download_vars == <<downloads, pipes, msgs, screen, selected_game, selected_channel,
                   app>>
lock_vars == <<lock_path, inode_content, inode_lock, procs>>
ipc_vars == <<clients, bus, server>>
vars == <<config, disk, ret, syncs, downloads, pipes, msgs, screen, selected_game,
          selected_channel, app, lock_path, inode_content, inode_lock, procs, clients, bus, server,
          launcher>>

None == <<>>
Some(x) == <<x>>

(***************************************************************************)
(* Bounds and input domains                                                *)
(***************************************************************************)
MaxCatalog == 2          \* games in one GetGamesResponse
MaxRemoteReleases == 1   \* releases of one GameInfoResponse
MaxSyncs == 2            \* catalog merges in one behaviour

GameIds == {"g1", "g2"}
Revisions == {1, 2}
RemoteReleases ==
    { [channel |-> "stable", version |-> "1.0.0", size_bytes |-> 2,
        release_date |-> 1],
      [channel |-> "stable", version |-> "1.1.0", size_bytes |-> 3,
        release_date |-> 2] }

RECURSIVE SeqsUpTo(_, _)
SeqsUpTo(S, n) ==
    IF n = 0 THEN { <<>> }
    ELSE LET shorter == SeqsUpTo(S, n - 1)
         IN  shorter \cup { Append(s, x) : s \in shorter, x \in S }

\* GameInfoResponse values: revision r of the server's record of a game
RemoteGame(id, r, rels) ==
    [ name |-> <<"name", r>>, name_id |-> id,
      description |-> <<"description", r>>, author |-> <<"author", r>>,
      default_channel |-> None, releases |-> rels ]

RemoteGames ==
    { RemoteGame(id, r, rels) :
        id \in GameIds, r \in Revisions,
        rels \in SeqsUpTo(RemoteReleases, MaxRemoteReleases) }

\* GetGamesResponse.games
Catalogs == SeqsUpTo(RemoteGames, MaxCatalog)

(***************************************************************************)
(* client_config.rs: DropsAccountConfig                                    *)
(***************************************************************************)
\* create_new_release recording the release as installed
create_new_release_installed(r) ==
    [ channel_name |-> r.channel, version |-> r.version,
      state |-> "Installed", size_bytes |-> r.size_bytes,
      release_date |-> r.release_date ]

create_new_release(r) ==
    [ channel_name |-> r.channel, version |-> r.version,
      state |-> "NotInstalled", size_bytes |-> r.size_bytes,
      release_date |-> r.release_date ]

MapSeq(s, F(_)) == [ i \in 1..Len(s) |-> F(s[i]) ]

FilterSeq(s, P(_)) == SelectSeq(s, P)

\* position of the first element satisfying P, 0 when there is none
FirstIndex(s, P(_)) ==
    IF \E i \in 1..Len(s) : P(s[i])
    THEN CHOOSE i \in 1..Len(s) : P(s[i]) /\ \A j \in 1..(i - 1) : ~P(s[j])
    ELSE 0

\* add_new_game taking the channel of the first release whatever the catalog
\* declares as default
add_new_game_first_channel(games, game_info) ==
    LET releases == MapSeq(game_info.releases, create_new_release)
        stored_game ==
            [ name |-> game_info.name, name_id |-> game_info.name_id,
              description |-> game_info.description, author |-> game_info.author,
              releases |-> releases, orphaned |-> FALSE,
              selected_channel |->
                  IF Len(releases) > 0 THEN Some(releases[1].channel_name) ELSE None ]
    IN  Append(games, stored_game)

add_new_game(games, game_info) ==
    LET releases == MapSeq(game_info.releases, create_new_release)
        channel ==
            IF game_info.default_channel = None /\ Len(releases) > 0
            THEN Some(releases[1].channel_name)
            ELSE game_info.default_channel
        stored_game ==
            [ name |-> game_info.name, name_id |-> game_info.name_id,
              description |-> game_info.description, author |-> game_info.author,
              releases |-> releases, orphaned |-> FALSE,
              selected_channel |-> channel ]
    IN  Append(games, stored_game)

\* a patch that looks for the stored game among the games not orphaned
patch_existing_game_unorphaned(games, existing_game, game_info) ==
    LET known(x) == \E i \in 1..Len(existing_game.releases) :
                        existing_game.releases[i].version = x.version
        unknown(x) == ~known(x)
        new == FilterSeq(game_info.releases, unknown)
        patched_game ==
            [ name |-> game_info.name, name_id |-> existing_game.name_id,
              description |-> game_info.description, author |-> game_info.author,
              orphaned |-> FALSE,
              selected_channel |-> existing_game.selected_channel,
              releases |-> MapSeq(new, create_new_release) \o existing_game.releases ]
        same_id(x) == x.name_id = patched_game.name_id /\ ~x.orphaned
        at == FirstIndex(games, same_id)
    IN  IF at = 0
        THEN [ ok |-> FALSE, games |-> games ]
        ELSE [ ok |-> TRUE, games |-> [ games EXCEPT ![at] = patched_game ] ]

patch_existing_game(games, existing_game, game_info) ==
    LET known(x) == \E i \in 1..Len(existing_game.releases) :
                        existing_game.releases[i].version = x.version
        unknown(x) == ~known(x)
        new == FilterSeq(game_info.releases, unknown)
        patched_game ==
            [ name |-> game_info.name, name_id |-> existing_game.name_id,
              description |-> game_info.description, author |-> game_info.author,
              orphaned |-> FALSE,
              selected_channel |-> existing_game.selected_channel,
              releases |-> MapSeq(new, create_new_release) \o existing_game.releases ]
        same_id(x) == x.name_id = patched_game.name_id
        at == FirstIndex(games, same_id)
    IN  IF at = 0
        THEN [ ok |-> FALSE, games |-> games ]
        ELSE [ ok |-> TRUE, games |-> [ games EXCEPT ![at] = patched_game ] ]

\* HashMap collected from (name_id, game) pairs: a later pair replaces an earlier one
existing_game_map(games) ==
    [ id \in { games[i].name_id : i \in 1..Len(games) } |->
        LET last == CHOOSE i \in 1..Len(games) :
                        /\ games[i].name_id = id
                        /\ \A j \in (i + 1)..Len(games) : games[j].name_id # id
        IN  games[last] ]

MapRemove(map, id) == [ k \in (DOMAIN map) \ {id} |-> map[k] ]

\* the for loop of handle_game_response over the entries still to consume
RECURSIVE consume_games(_, _, _)
consume_games(games, map, rest) ==
    IF rest = <<>>
    THEN [ ok |-> TRUE, games |-> games, map |-> map ]
    ELSE LET x == Head(rest)
         IN  IF x.name_id \in DOMAIN map
             THEN LET r == patch_existing_game(games, map[x.name_id], x)
                  IN  IF r.ok
                      THEN consume_games(r.games, MapRemove(map, x.name_id), Tail(rest))
                      ELSE [ ok |-> FALSE, games |-> r.games,
                             map |-> MapRemove(map, x.name_id) ]
             ELSE consume_games(add_new_game(games, x), map, Tail(rest))

handle_game_response(games, game_info_response) ==
    LET r == consume_games(games, existing_game_map(games), game_info_response)
        orphaned_games == DOMAIN r.map
    IN  IF ~r.ok
        THEN [ ok |-> FALSE, games |-> r.games ]
        ELSE [ ok |-> TRUE,
               games |-> [ i \in 1..Len(r.games) |->
                             IF r.games[i].name_id \in orphaned_games
                             THEN [ r.games[i] EXCEPT !.orphaned = TRUE ]
                             ELSE r.games[i] ] ]

\* an update that marks every release of the game
account_update_install_state_game(games, game_name_id, version, channel_name, state) ==
    LET is_game(x) == x.name_id = game_name_id
        g == FirstIndex(games, is_game)
        is_release(y) == y.version = version /\ y.channel_name = channel_name
        r == IF g = 0 THEN 0 ELSE FirstIndex(games[g].releases, is_release)
    IN  IF g = 0 \/ r = 0
        THEN [ ok |-> FALSE, games |-> games ]
        ELSE [ ok |-> TRUE,
               games |-> [ games EXCEPT ![g].releases =
                             [ j \in 1..Len(@) |-> [ @[j] EXCEPT !.state = state ] ] ] ]

account_update_install_state(games, game_name_id, version, channel_name, state) ==
    LET is_game(x) == x.name_id = game_name_id
        g == FirstIndex(games, is_game)
        is_release(y) == y.version = version /\ y.channel_name = channel_name
        r == IF g = 0 THEN 0 ELSE FirstIndex(games[g].releases, is_release)
    IN  IF g = 0 \/ r = 0
        THEN [ ok |-> FALSE, games |-> games ]
        ELSE [ ok |-> TRUE,
               games |-> [ games EXCEPT ![g].releases[r].state = state ] ]

(***************************************************************************)
(* client_config.rs: ClientConfig                                          *)
(***************************************************************************)
\* index of the active account in cfg.accounts, 0 when there is none
active_index(cfg) ==
    LET is_active_account(x) == x.id = cfg.active_account
    IN  FirstIndex(cfg.accounts, is_active_account)

get_active_account(cfg) ==
    IF active_index(cfg) = 0 THEN None ELSE Some(cfg.accounts[active_index(cfg)])

\* the document with the stored account of the same id replaced
patch_account(cfg, account) ==
    LET same_id(x) == x.id = account.id
        at == FirstIndex(cfg.accounts, same_id)
    IN  [ cfg EXCEPT !.accounts[at] = account ]

save(cfg) == cfg

patch_account_and_save(cfg, account) ==
    LET patched == patch_account(cfg, account)
    IN  [ config |-> patched, disk |-> save(patched) ]

\* ClientConfig::sync_and_save on document cfg with dsk on disk: the merge runs
\* on a clone of the active account, and the clone is stored and saved only
\* behind the ? operator
sync_and_save(cfg, dsk, game_info_response) ==
    LET account == get_active_account(cfg)[1]
        r == handle_game_response(account.games, game_info_response)
    IN  IF r.ok
        THEN LET s == patch_account_and_save(cfg, [ account EXCEPT !.games = r.games ])
             IN  [ ok |-> TRUE, config |-> s.config, disk |-> s.disk ]
        ELSE [ ok |-> FALSE, config |-> cfg, disk |-> dsk ]

\* ClientConfig::update_install_state on document cfg with dsk on disk
update_install_state(cfg, dsk, game_name_id, version, channel_name, state) ==
    LET account == get_active_account(cfg)[1]
        r == account_update_install_state(account.games, game_name_id, version,
                                          channel_name, state)
    IN  IF r.ok
        THEN LET s == patch_account_and_save(cfg, [ account EXCEPT !.games = r.games ])
             IN  [ ok |-> TRUE, config |-> s.config, disk |-> s.disk ]
        ELSE [ ok |-> FALSE, config |-> cfg, disk |-> dsk ]

ActiveGames == get_active_account(config)[1].games

(***************************************************************************)
(* The config store driven by catalog merges and install records           *)
(***************************************************************************)
\* a game as an earlier session left it in config.json
LoadedGame ==
    [ name |-> <<"name", 1>>, name_id |-> "g1",
      description |-> <<"description", 1>>, author |-> <<"author", 1>>,
      orphaned |-> FALSE, selected_channel |-> Some("stable"),
      releases |-> << [ channel_name |-> "stable", version |-> "1.0.0",
                        state |-> "Installed", size_bytes |-> 2,
                        release_date |-> 1 ] >> ]

\* the game lists of the documents the client starts from: the one the wizard
\* and a login leave behind, and one with an installed release
LoadedGameLists == { <<>>, <<LoadedGame>> }

FirstAccount(games) ==
    [ id |-> "account1", url |-> "url1", session_token |-> "id=1", games |-> games ]

ConfiguredConfig(games) ==
    [ active_account |-> "account1", accounts |-> <<FirstAccount(games)>>,
      is_active |-> TRUE ]

NoReturn == [ op |-> "none", ok |-> TRUE ]

NoPipe == [ pc |-> "none" ]

\* the download handler and the instance lock before anything has happened
InitDownloadIdle ==
    /\ downloads = <<>>
    /\ pipes = [ g \in GameIds |-> NoPipe ]
    /\ msgs = <<>>
    /\ screen = "Main"
    /\ selected_game = None
    /\ selected_channel = None
    /\ app = "running"

InitLockIdle ==
    /\ lock_path = 0
    /\ inode_content = <<>>
    /\ inode_lock = <<>>
    /\ procs = <<>>

InitIpcIdle ==
    /\ clients = <<>>
    /\ bus = <<>>
    /\ server = [ pc |-> "idle" ]

\* DropsClient::new of a client started without a game to play
InitLauncherIdle ==
    launcher = [ requested_game_to_play |-> None,
                 run_from_args_issue |-> [ kind |-> "NotSet" ], launched |-> 0,
                 is_playing |-> FALSE ]

InitMerge ==
    /\ \E games \in LoadedGameLists : config = ConfiguredConfig(games)
    /\ disk = config
    /\ ret = NoReturn
    /\ syncs = 0
    /\ InitDownloadIdle
    /\ InitLockIdle
    /\ InitIpcIdle
    /\ InitLauncherIdle

SyncAndSave(game_info_response) ==
    /\ syncs < MaxSyncs
    /\ get_active_account(config) # None
    /\ LET r == sync_and_save(config, disk, game_info_response)
       IN  /\ config' = r.config
           /\ disk' = r.disk
           /\ ret' = [ op |-> "sync_and_save", ok |-> r.ok ]
    /\ syncs' = syncs + 1
    /\ UNCHANGED <<download_vars, lock_vars, ipc_vars, launcher>>

UpdateInstallState(game_name_id, version, channel_name) ==
    /\ get_active_account(config) # None
    /\ LET r == update_install_state(config, disk, game_name_id, version,
                                     channel_name, "Installed")
       IN  /\ config' = r.config
           /\ disk' = r.disk
           /\ ret' = [ op |-> "update_install_state", ok |-> r.ok ]
    /\ UNCHANGED <<syncs, download_vars, lock_vars, ipc_vars, launcher>>

NextMerge ==
    \/ \E c \in Catalogs : SyncAndSave(c)
    \/ \E g \in GameIds, r \in RemoteReleases :
          UpdateInstallState(g, r.version, r.channel)

SpecMerge == InitMerge /\ [][NextMerge]_vars

(***************************************************************************)
(* Properties of the catalog merge                                         *)
(***************************************************************************)
SyncStep == ret'.op = "sync_and_save" /\ syncs' = syncs + 1

NameIds(game_info_response) ==
    { game_info_response[i].name_id : i \in 1..Len(game_info_response) }

HasRelease(game, channel_name, version, state) ==
    \E k \in 1..Len(game.releases) :
        /\ game.releases[k].channel_name = channel_name
        /\ game.releases[k].version = version
        /\ game.releases[k].state = state

\* every release Installed in game is Installed in some game of the same
\* name_id in games
KeepsInstalled(game, games) ==
    \A k \in 1..Len(game.releases) :
        game.releases[k].state = "Installed" =>
            \E j \in 1..Len(games) :
                /\ games[j].name_id = game.name_id
                /\ HasRelease(games[j], game.releases[k].channel_name,
                              game.releases[k].version, "Installed")

\* C1: merge monotonicity. Every release that is Installed before a catalog
\* merge is still present in its game and Installed after the merge, whatever
\* the catalog lists.
C1_MergeMonotonicity ==
    [][ SyncStep =>
          \A i \in 1..Len(ActiveGames) : KeepsInstalled(ActiveGames[i], ActiveGames') ]_vars

SameGamesAndReleases(a, b) ==
    /\ Len(a) = Len(b)
    /\ \A i \in 1..Len(a) :
          a[i].name_id = b[i].name_id /\ a[i].releases = b[i].releases

\* C2: merge idempotence. Merging a catalog a second time yields the same
\* list of games and the same release list per game as merging it once.
C2_MergeIdempotence ==
    \A c \in Catalogs :
        LET once == handle_game_response(ActiveGames, c)
            twice == handle_game_response(once.games, c)
        IN  SameGamesAndReleases(once.games, twice.games)

\* the first catalog entry with the given name_id
RemoteEntry(game_info_response, name_id) ==
    LET is_entry(x) == x.name_id = name_id
    IN  game_info_response[FirstIndex(game_info_response, is_entry)]

\* the releases of before are all among those of after, with their state
KeepsReleases(before, after) ==
    \A k \in 1..Len(before.releases) :
        HasRelease(after, before.releases[k].channel_name,
                   before.releases[k].version, before.releases[k].state)

\* C9: orphan round trip. A local game absent from the merged catalog becomes
\* orphaned with its releases unchanged; an orphaned game that a later catalog
\* lists again is no longer orphaned, carries the remote name, description
\* and author, and every release it had keeps its install state.
C9_OrphanRoundTrip ==
    \A c \in Catalogs :
        LET merged == handle_game_response(ActiveGames, c).games
        IN  \A i \in 1..Len(ActiveGames) :
                LET game == ActiveGames[i]
                IN  /\ game.name_id \notin NameIds(c) =>
                          /\ merged[i].orphaned
                          /\ merged[i].releases = game.releases
                    /\ (game.orphaned /\ game.name_id \in NameIds(c)) =>
                          /\ ~merged[i].orphaned
                          /\ merged[i].name = RemoteEntry(c, game.name_id).name
                          /\ merged[i].description =
                                RemoteEntry(c, game.name_id).description
                          /\ merged[i].author = RemoteEntry(c, game.name_id).author
                          /\ KeepsReleases(game, merged[i])

(***************************************************************************)
(* The merge over catalogs with several channels, repeated release         *)
(* entries and a declared default channel                                  *)
(***************************************************************************)
MaxReconcileReleases == 2   \* releases of one GameInfoResponse
MaxReconcileCatalog == 1    \* games in one GetGamesResponse

ReconcileReleases ==
    { [channel |-> "stable", version |-> "1.0.0", size_bytes |-> 2,
        release_date |-> 1],
      [channel |-> "beta", version |-> "1.0.0", size_bytes |-> 2,
        release_date |-> 1],
      [channel |-> "stable", version |-> "1.1.0", size_bytes |-> 3,
        release_date |-> 2] }

DefaultChannels == { None, Some("beta") }

ReconcileGames ==
    { [ RemoteGame(id, 2, rels) EXCEPT !.default_channel = default ] :
        id \in GameIds, default \in DefaultChannels,
        rels \in SeqsUpTo(ReconcileReleases, MaxReconcileReleases) }

ReconcileCatalogs == SeqsUpTo(ReconcileGames, MaxReconcileCatalog)

\* the game lists the client starts from: none, one installed game, and that
\* game next to a second one with releases on two channels
ReconcileLocals ==
    { <<>>,
      <<LoadedGame>>,
      handle_game_response(<<LoadedGame>>,
          << RemoteGame("g1", 1, <<>>),
             RemoteGame("g2", 1,
                 << [channel |-> "beta", version |-> "1.0.0", size_bytes |-> 2,
        release_date |-> 1],
                    [channel |-> "stable", version |-> "1.1.0", size_bytes |-> 3,
        release_date |-> 2] >>)
          >>).games }

InitReconcile ==
    /\ \E games \in ReconcileLocals : config = ConfiguredConfig(games)
    /\ disk = config
    /\ ret = NoReturn
    /\ syncs = 0
    /\ InitDownloadIdle
    /\ InitLockIdle
    /\ InitIpcIdle
    /\ InitLauncherIdle

NextReconcile == \E c \in ReconcileCatalogs : SyncAndSave(c)

SpecReconcile == InitReconcile /\ [][NextReconcile]_vars

ReleaseKeys(game) ==
    { <<game.releases[k].channel_name, game.releases[k].version>> :
        k \in 1..Len(game.releases) }

UniqueReleases(game) ==
    \A j, k \in 1..Len(game.releases) :
        ( /\ game.releases[j].channel_name = game.releases[k].channel_name
          /\ game.releases[j].version = game.releases[k].version ) => j = k

\* C11: release uniqueness. No game of the account holds two releases with
\* the same channel and version, in any state the merges lead to.
C11_ReleaseUniqueness ==
    \A i \in 1..Len(ActiveGames) : UniqueReleases(ActiveGames[i])

\* C12: game uniqueness. No two games of the account have the same name_id,
\* in any state the merges lead to.
C12_GameUniqueness ==
    \A i, j \in 1..Len(ActiveGames) :
        ActiveGames[i].name_id = ActiveGames[j].name_id => i = j

\* C13: a release is created when its channel and version pair is new. After
\* the merge of a catalog, a local game the catalog lists holds every remote
\* release whose pair it did not hold, as NotInstalled, also when the version
\* is known from another channel.
C13_NewPairCreated ==
    \A c \in ReconcileCatalogs :
        LET merged == handle_game_response(ActiveGames, c).games
        IN  \A i \in 1..Len(ActiveGames) :
              ActiveGames[i].name_id \in NameIds(c) =>
                LET remote == RemoteEntry(c, ActiveGames[i].name_id).releases
                IN  \A k \in 1..Len(remote) :
                      <<remote[k].channel, remote[k].version>>
                            \notin ReleaseKeys(ActiveGames[i]) =>
                         HasRelease(merged[i], remote[k].channel,
                                    remote[k].version, "NotInstalled")

\* the release list the patch rule asks for: the remote releases whose
\* version the local list does not have, NotInstalled and in remote order,
\* followed by the local list
PatchedReleases(local, remote) ==
    LET fresh == { k \in 1..Len(remote.releases) :
                     \A j \in 1..Len(local.releases) :
                        local.releases[j].version # remote.releases[k].version }
        RECURSIVE build(_)
        build(k) ==
            IF k > Len(remote.releases) THEN local.releases
            ELSE IF k \in fresh
                 THEN << [ channel_name |-> remote.releases[k].channel,
                           version |-> remote.releases[k].version,
                           state |-> "NotInstalled",
                           size_bytes |-> remote.releases[k].size_bytes,
                           release_date |-> remote.releases[k].release_date ] >>
                      \o build(k + 1)
                 ELSE build(k + 1)
    IN  build(1)

\* C14: patching an existing game. After the merge of a catalog, a local game
\* the catalog lists has the remote name, description and author, its own
\* selected_channel, and the new remote releases (NotInstalled, remote order)
\* followed by its own release list, unchanged.
C14_PatchExistingGame ==
    \A c \in Catalogs :
        LET merged == handle_game_response(ActiveGames, c).games
        IN  \A i \in 1..Len(ActiveGames) :
              ActiveGames[i].name_id \in NameIds(c) =>
                LET local == ActiveGames[i]
                    remote == RemoteEntry(c, local.name_id)
                IN  /\ merged[i].name_id = local.name_id
                    /\ merged[i].name = remote.name
                    /\ merged[i].description = remote.description
                    /\ merged[i].author = remote.author
                    /\ merged[i].selected_channel = local.selected_channel
                    /\ merged[i].releases = PatchedReleases(local, remote)

\* the game the add rule asks for
NewGame(remote) ==
    LET releases == [ k \in 1..Len(remote.releases) |->
                        [ channel_name |-> remote.releases[k].channel,
                          version |-> remote.releases[k].version,
                          state |-> "NotInstalled",
                          size_bytes |-> remote.releases[k].size_bytes,
                          release_date |-> remote.releases[k].release_date ] ]
    IN  [ name |-> remote.name, name_id |-> remote.name_id,
          description |-> remote.description, author |-> remote.author,
          orphaned |-> FALSE, releases |-> releases,
          selected_channel |->
              IF remote.default_channel # None THEN remote.default_channel
              ELSE IF releases # <<>> THEN Some(releases[1].channel_name)
              ELSE None ]

\* C15: adding a new game. The merge appends, for every catalog entry whose
\* name_id the account does not know, exactly one game: not orphaned, with
\* every remote release as NotInstalled, and with the declared default
\* channel, else the channel of its first release, else none selected.
C15_AddNewGame ==
    \A c \in ReconcileCatalogs :
        LET local == ActiveGames
            merged == handle_game_response(local, c).games
            known(x) == \E i \in 1..Len(local) : local[i].name_id = x.name_id
            unknown(x) == ~known(x)
            appended == SubSeq(merged, Len(local) + 1, Len(merged))
        IN  FilterSeq(appended, unknown) = MapSeq(FilterSeq(c, unknown), NewGame)

\* a merge added a game with two releases and the declared default channel
C15_Witness ==
    /\ ret = [ op |-> "sync_and_save", ok |-> TRUE ]
    /\ \E i \in 1..Len(ActiveGames) :
          /\ Len(ActiveGames[i].releases) = 2
          /\ ActiveGames[i].selected_channel = Some("beta")
          /\ ActiveGames[i].releases[1].channel_name = "stable"
          /\ ~ActiveGames[i].orphaned

\* C16: orphaning is a soft delete. The merge of a catalog changes nothing but
\* the orphaned flag of a local game the catalog does not list, and it drops
\* no game of the account and no release of a game.
C16_OrphanFrame ==
    \A c \in Catalogs :
        LET merged == handle_game_response(ActiveGames, c).games
        IN  /\ Len(merged) >= Len(ActiveGames)
            /\ \A i \in 1..Len(ActiveGames) :
                  /\ merged[i].name_id = ActiveGames[i].name_id
                  /\ ActiveGames[i].name_id \notin NameIds(c) =>
                        merged[i] = [ ActiveGames[i] EXCEPT !.orphaned = TRUE ]
                  /\ ReleaseKeys(ActiveGames[i]) \subseteq ReleaseKeys(merged[i])

(***************************************************************************)
(* handlers/download.rs: the download tasks, their streams and the handler *)
(* of the download messages.                                               *)
(***************************************************************************)
MaxDownloads == 2        \* entries of the downloads list
MaxQueue == 1            \* download messages waiting for update
MaxChunks == 2           \* chunks of one response body
MaxLaunches == 2         \* calls of run_release for the requested game

ChunkLens == {0, 1}

\* what the received bytes and the file system have in store for the code
\* after the while loop: ZipArchive::new fails, create_dir_all fails,
\* unzip_file fails, or all three succeed
Fates == {"bad_zip", "dir_failed", "unzip_failed", "ok"}

\* f32 percentages are kept as exact fractions
Percent(downloaded, total) == [ num |-> 100 * downloaded, den |-> total ]
ZeroPercent == [ num |-> 0, den |-> 1 ]

Downloading(percent) == [ kind |-> "Downloading", progress_percentage |-> percent ]
Errored(error) == [ kind |-> "Errored", error |-> error ]

\* DownloadRequest::build(release, game, config)
DownloadRequest(release, game) ==
    [ name_id |-> game.name_id, version |-> release.version,
      channel_name |-> release.channel_name, size_bytes |-> release.size_bytes ]

\* Download::new(request)
Download_new(request) ==
    [ game_name_id |-> request.name_id, version |-> request.version,
      channel_name |-> request.channel_name, size_bytes |-> request.size_bytes,
      state |-> Downloading(ZeroPercent) ]

\* the stream Download::download builds, before it has run
start_pipe(download) ==
    [ pc |-> "start", game_name_id |-> download.game_name_id,
      version |-> download.version, channel_name |-> download.channel_name,
      size_bytes |-> download.size_bytes, downloaded |-> 0,
      requested |-> FALSE, parsed |-> FALSE, wrote |-> FALSE,
      read_failed |-> FALSE, emitted |-> <<>> ]

\* Download::subscription of every entry, batched and keyed by game_name_id:
\* an id that stays subscribed keeps its stream, an id that is new starts the
\* stream of its first Downloading entry, an id no longer named is dropped
subscription(dls, running) ==
    [ g \in GameIds |->
        LET wanted(x) == x.game_name_id = g /\ x.state.kind = "Downloading"
            at == FirstIndex(dls, wanted)
        IN  IF at = 0 THEN NoPipe
            ELSE IF running[g].pc # "none" THEN running[g]
            ELSE start_pipe(dls[at]) ]

ProgressItem(percent) == [ kind |-> "Downloading", percent |-> percent ]
FinishedItem(pipe) ==
    [ kind |-> "Finished",
      release |-> [ game_name_id |-> pipe.game_name_id, version |-> pipe.version,
                    channel_name |-> pipe.channel_name ] ]
ErrItem(error) == [ kind |-> "Err", error |-> error ]

\* try_channel(1, ..): the buffer of the channel the closure sends events on
ChannelSize == 1

\* msgs holds the messages on their way to update: the events of the download
\* streams, which update takes in the order the streams yield them, and behind
\* them the login and fetch tasks, which finish in any order
IsEvent(m) == "item" \in DOMAIN m
IsTask(m) == "task" \in DOMAIN m
Events(queue) == SelectSeq(queue, IsEvent)
Tasks(queue) == SelectSeq(queue, IsTask)

\* the sequence with x in front of its i-th element
InsertAt(seq, i, x) == SubSeq(seq, 1, i - 1) \o <<x>> \o SubSeq(seq, i, Len(seq))

\* the messages of stream g among those from position `from` on
PendingOf(queue, g, from) ==
    Cardinality({ i \in from..Len(Events(queue)) : queue[i].id = g })

\* output.send(item): the closure sends an event on the channel and the
\* stream yields it behind the events sent before:
\* Message::DownloadProgressing((id, Ok(item)))
Emit(g, pipe, item) ==
    /\ pipes' = [ pipes EXCEPT ![g] = [ pipe EXCEPT !.emitted = Append(@, item) ] ]
    /\ msgs' = InsertAt(msgs, Len(Events(msgs)) + 1, [ id |-> g, item |-> item ])

\* the closure returns Err(error). The error does not pass through the
\* channel: the stream yields it when the closure has returned, ahead of the
\* events still waiting in the channel (its buffer and the slot of its one
\* sender), and yields those after it. Message::DownloadProgressing((id,
\* Err(error))) is put in front of the last `pending` events of the stream.
Fail(g, pipe, error) ==
    \E at \in 1..(Len(Events(msgs)) + 1) :
        LET pending == PendingOf(msgs, g, at)
        IN  /\ pending <= ChannelSize + 1
            /\ pending <= Len(pipe.emitted)
            /\ pipes' = [ pipes EXCEPT ![g] =
                            [ pipe EXCEPT !.emitted =
                                InsertAt(@, Len(@) + 1 - pending, ErrItem(error)) ] ]
            /\ msgs' = InsertAt(msgs, at, [ id |-> g, item |-> ErrItem(error) ])

\* the queue without the last n events of stream g
DropLast(queue, g, n) ==
    LET lost == { i \in 1..Len(Events(queue)) :
                    queue[i].id = g /\ PendingOf(queue, g, i + 1) < n }
        kept[i \in 0..Len(queue)] ==
            IF i = 0 THEN <<>>
            ELSE IF i \in lost THEN kept[i - 1]
            ELSE Append(kept[i - 1], queue[i])
    IN  kept[Len(queue)]

\* expect panics in the poll of the stream: the stream yields nothing more,
\* and the events that were sent and are still in its channel (its buffer and
\* the slot of its one sender) are lost with it; those the stream had yielded
\* before reach update
Panic(g, pipe) ==
    \E lost \in 0..(ChannelSize + 1) :
        /\ lost <= PendingOf(msgs, g, 1)
        /\ lost <= Len(pipe.emitted)
        /\ pipes' = [ pipes EXCEPT ![g] =
                        [ pipe EXCEPT !.emitted = SubSeq(@, 1, Len(@) - lost) ] ]
        /\ msgs' = DropLast(msgs, g, lost)

\* after_stream without the test of downloaded
after_stream_unchecked(pipe, fate) ==
    IF fate = "bad_zip"
    THEN [ pc |-> "ended", parsed |-> TRUE, wrote |-> FALSE,
           item |-> Some(ErrItem("IoError")) ]
    ELSE IF fate = "dir_failed"
    THEN [ pc |-> "panicked", parsed |-> TRUE, wrote |-> FALSE, item |-> None ]
    ELSE IF fate = "unzip_failed"
    THEN [ pc |-> "ended", parsed |-> TRUE, wrote |-> TRUE,
           item |-> Some(ErrItem("IoError")) ]
    ELSE [ pc |-> "ended", parsed |-> TRUE, wrote |-> TRUE,
           item |-> Some(FinishedItem(pipe)) ]

\* the code after the while loop, up to the item it ends the stream with
\* (none when create_dir_all fails and the expect panics the task)
after_stream(pipe, fate) ==
    IF pipe.downloaded = 0
    THEN [ pc |-> "ended", parsed |-> FALSE, wrote |-> FALSE,
           item |-> Some(ErrItem("EmptyResponse")) ]
    ELSE IF fate = "bad_zip"
    THEN [ pc |-> "ended", parsed |-> TRUE, wrote |-> FALSE,
           item |-> Some(ErrItem("IoError")) ]
    ELSE IF fate = "dir_failed"
    THEN [ pc |-> "panicked", parsed |-> TRUE, wrote |-> FALSE, item |-> None ]
    ELSE IF fate = "unzip_failed"
    THEN [ pc |-> "ended", parsed |-> TRUE, wrote |-> TRUE,
           item |-> Some(ErrItem("IoError")) ]
    ELSE [ pc |-> "ended", parsed |-> TRUE, wrote |-> TRUE,
           item |-> Some(FinishedItem(pipe)) ]

\* output.send(Downloading { percent: 0.0 })
PipeStart(g) ==
    /\ app = "running"
    /\ pipes[g].pc = "start"
    /\ Len(Events(msgs)) < MaxQueue
    /\ Emit(g, [ pipes[g] EXCEPT !.pc = "requesting" ], ProgressItem(ZeroPercent))
    /\ UNCHANGED <<downloads, screen, selected_game, selected_channel, app, config_vars, lock_vars, ipc_vars, launcher>>

\* client.get(url).send(): the response arrives
PipeRequestOk(g) ==
    /\ app = "running"
    /\ pipes[g].pc = "requesting"
    /\ pipes' = [ pipes EXCEPT ![g].pc = "streaming", ![g].requested = TRUE ]
    /\ UNCHANGED <<downloads, msgs, screen, selected_game, selected_channel, app, config_vars, lock_vars, ipc_vars, launcher>>

\* client.get(url).send(): the request fails and ? returns the error from the
\* closure; an error needs no room in the channel
PipeRequestFailed(g) ==
    /\ app = "running"
    /\ pipes[g].pc = "requesting"
    /\ Len(Events(msgs)) <= MaxQueue
    /\ Fail(g, [ pipes[g] EXCEPT !.pc = "ended", !.requested = TRUE ], "RequestFailed")
    /\ UNCHANGED <<downloads, screen, selected_game, selected_channel, app, config_vars, lock_vars, ipc_vars, launcher>>

\* a while loop that unpacks each chunk into the install directory as it comes
PipeChunk_unpacking(g, len) ==
    /\ app = "running"
    /\ pipes[g].pc = "streaming"
    /\ Len(pipes[g].emitted) <= MaxChunks
    /\ Len(Events(msgs)) < MaxQueue
    /\ LET downloaded == pipes[g].downloaded + len
       IN  Emit(g, [ pipes[g] EXCEPT !.downloaded = downloaded, !.wrote = TRUE ],
                ProgressItem(Percent(downloaded, pipes[g].size_bytes)))
    /\ UNCHANGED <<downloads, screen, selected_game, selected_channel, app, config_vars, lock_vars, ipc_vars, launcher>>

\* one turn of the while loop: Some(Ok(chunk))
PipeChunk(g, len) ==
    /\ app = "running"
    /\ pipes[g].pc = "streaming"
    /\ Len(pipes[g].emitted) <= MaxChunks
    /\ Len(Events(msgs)) < MaxQueue
    /\ LET downloaded == pipes[g].downloaded + len
       IN  Emit(g, [ pipes[g] EXCEPT !.downloaded = downloaded ],
                ProgressItem(Percent(downloaded, pipes[g].size_bytes)))
    /\ UNCHANGED <<downloads, screen, selected_game, selected_channel, app, config_vars, lock_vars, ipc_vars, launcher>>

\* stream.next() gives Some(Err(_)): the pattern Some(Ok(chunk)) does not
\* match, the while loop ends and the rest of the closure runs
PipeChunkFailed(g, fate) ==
    /\ app = "running"
    /\ pipes[g].pc = "streaming"
    /\ LET r == after_stream(pipes[g], fate)
           pipe == [ pipes[g] EXCEPT !.pc = r.pc, !.parsed = r.parsed, !.wrote = r.wrote,
                                     !.read_failed = TRUE ]
       IN  IF r.item = None
           THEN Panic(g, pipe)
           ELSE IF r.item[1].kind = "Err"
           THEN Len(Events(msgs)) <= MaxQueue /\ Fail(g, pipe, r.item[1].error)
           ELSE Len(Events(msgs)) < MaxQueue /\ Emit(g, pipe, r.item[1])
    /\ UNCHANGED <<downloads, screen, selected_game, selected_channel, app, config_vars, lock_vars, ipc_vars, launcher>>

\* stream.next() gives None: the while loop ends and the rest of the closure
\* runs
PipeStreamEnd(g, fate) ==
    /\ app = "running"
    /\ pipes[g].pc = "streaming"
    /\ LET r == after_stream(pipes[g], fate)
           pipe == [ pipes[g] EXCEPT !.pc = r.pc, !.parsed = r.parsed, !.wrote = r.wrote ]
       IN  IF r.item = None
           THEN Panic(g, pipe)
           ELSE IF r.item[1].kind = "Err"
           THEN Len(Events(msgs)) <= MaxQueue /\ Fail(g, pipe, r.item[1].error)
           ELSE Len(Events(msgs)) < MaxQueue /\ Emit(g, pipe, r.item[1])
    /\ UNCHANGED <<downloads, screen, selected_game, selected_channel, app, config_vars, lock_vars, ipc_vars, launcher>>

\* position of the first entry of the list with the given id, 0 when none
find_download(dls, id) ==
    LET is_download(x) == x.game_name_id = id
    IN  FirstIndex(dls, is_download)

\* self.downloads.retain(|x| x.game_name_id != id)
retain_other(dls, id) ==
    LET other(x) == x.game_name_id # id
    IN  FilterSeq(dls, other)

\* Message::Download(request)
on_download(dls, request) == Append(dls, Download_new(request))

\* Message::DownloadProgressing((id, Ok(Downloading { percent })))
on_downloading(dls, id, percent) ==
    [ dls EXCEPT ![find_download(dls, id)].state = Downloading(percent) ]

\* Message::DownloadProgressing((id, Err(error)))
on_download_error(dls, id, error) ==
    [ dls EXCEPT ![find_download(dls, id)].state = Errored(error) ]

\* the screens without the games view: the wizard and the login form
LoggedOutScreens == {"Wizard", "Login", "LoggingIn"}

\* Release::release_date, the date the server gave the release, in days
release_date(release) == release.release_date

\* max_by(release_date) of newest_release_by_state: of the releases found,
\* the last one of the latest date
newest_of(found) ==
    IF found = <<>> THEN None
    ELSE Some(found[CHOOSE i \in 1..Len(found) :
                  /\ \A j \in 1..Len(found) : release_date(found[j]) <= release_date(found[i])
                  /\ \A j \in (i + 1)..Len(found) :
                         release_date(found[j]) < release_date(found[i])])

\* DropsClient::newest_release_by_state: of the releases on the channel and
\* in the state asked for (None asks for any), the newest
newest_release_by_state(releases, channel, state) ==
    LET fits(x) == /\ (channel = None \/ x.channel_name = channel[1])
                   /\ (state = None \/ x.state = state[1])
    IN  newest_of(FilterSeq(releases, fits))

\* main.rs view: the main screen shows the dialog of an issue of the requested
\* game in place of the games view
DialogShown ==
    screen = "Main" /\ launcher.run_from_args_issue.kind \in {"Error", "FoundUpdate"}

\* the main screen shows the games view, and not the dialog of an issue
GamesViewShown ==
    screen = "Main" /\ launcher.run_from_args_issue.kind \notin {"Error", "FoundUpdate"}

\* the games view shows show_game: a game is selected and the downloads list
\* has no entry of it (with an entry the view shows its progress bar or its
\* error)
ShowsGame ==
    /\ GamesViewShown
    /\ selected_game # None
    /\ find_download(downloads, selected_game[1].name_id) = 0

\* the view shows the state of the download of the selected game, the first
\* entry of its id: in the games view, and on the screen Message::Download
\* sets, which shows nothing else
ShowsDownload ==
    /\ (GamesViewShown \/ screen = "Downloading")
    /\ selected_game # None
    /\ find_download(downloads, selected_game[1].name_id) # 0

\* the option button of show_game from the newest installed and the latest
\* release of the channel
button_of(newest_installed, latest_release) ==
    IF newest_installed = None
    THEN IF latest_release = None
         THEN [ kind |-> "FetchReleases" ]
         ELSE [ kind |-> "Install", release |-> latest_release[1] ]
    ELSE IF latest_release # None /\ latest_release[1].version # newest_installed[1].version
    THEN [ kind |-> "Update", release |-> latest_release[1] ]
    ELSE [ kind |-> "Play", release |-> newest_installed[1] ]

\* DropsClient::show_game: the option button for the game on the channel, none
\* for a game without releases or without a channel
option_button(game, channel) ==
    IF game.releases = <<>> \/ channel = None
    THEN [ kind |-> "None" ]
    ELSE button_of(newest_release_by_state(game.releases, channel, Some("Installed")),
                   newest_release_by_state(game.releases, channel, None))

\* the Message::Download(game, release) the view offers: Install or Update of
\* show_game for the selected game, update of the FoundUpdate dialog
OfferedReleases ==
    IF DialogShown
    THEN IF launcher.run_from_args_issue.kind = "FoundUpdate"
         THEN { [ game |-> launcher.run_from_args_issue.game,
                  release |-> launcher.run_from_args_issue.new_release ] }
         ELSE {}
    ELSE IF ShowsGame
            /\ option_button(selected_game[1], selected_channel).kind
                   \in {"Install", "Update"}
    THEN { [ game |-> selected_game[1],
             release |-> option_button(selected_game[1], selected_channel).release ] }
    ELSE {}

\* the Message::Run(release) the view offers: Play of show_game, play of the
\* FoundUpdate dialog
OfferedRuns ==
    IF DialogShown
    THEN IF launcher.run_from_args_issue.kind = "FoundUpdate"
         THEN { launcher.run_from_args_issue.installed_release }
         ELSE {}
    ELSE IF ShowsGame /\ option_button(selected_game[1], selected_channel).kind = "Play"
    THEN { option_button(selected_game[1], selected_channel).release }
    ELSE {}

\* the channels of the pick list of show_game: those of the releases of the
\* game, shown when the game has releases and a channel is selected
OfferedChannels ==
    IF ShowsGame /\ selected_game[1].releases # <<>> /\ selected_channel # None
    THEN { selected_game[1].releases[k].channel_name :
             k \in 1..Len(selected_game[1].releases) }
    ELSE {}

\* the view offers Message::FetchGames: Refresh when nothing is selected and
\* the account has no game, Fetch releases of show_game
OffersFetchGames ==
    /\ GamesViewShown
    /\ IF selected_game = None
       THEN ActiveGames = <<>>
       ELSE /\ ShowsGame
            /\ option_button(selected_game[1], selected_channel).kind = "FetchReleases"

\* Message::Download(game, release)
Download(game, release) ==
    /\ app = "running"
    /\ [ game |-> game, release |-> release ] \in OfferedReleases
    /\ Len(downloads) < MaxDownloads
    /\ downloads' = on_download(downloads, DownloadRequest(release, game))
    /\ screen' = "Downloading"
    /\ pipes' = subscription(downloads', pipes)
    /\ UNCHANGED <<msgs, selected_game, selected_channel, app, config_vars, lock_vars, ipc_vars, launcher>>

\* the channel Message::SelectGame picks: the game's selected channel, or the
\* channel of its first release
channel_of_game(game) ==
    IF game.selected_channel # None THEN game.selected_channel
    ELSE IF game.releases = <<>> THEN None
    ELSE Some(game.releases[1].channel_name)

\* Message::SelectGame(game), for a game of the account's list: the unwrap of
\* the channel panics after blackboard.selected_channel was assigned
SelectGame(game) ==
    /\ app = "running"
    /\ GamesViewShown
    /\ selected_channel' = channel_of_game(game)
    /\ IF channel_of_game(game) = None
       THEN app' = "panicked" /\ selected_game' = selected_game
       ELSE app' = app /\ selected_game' = Some(game)
    /\ UNCHANGED <<downloads, pipes, msgs, screen, config_vars, lock_vars, ipc_vars, launcher>>

\* Message::ChannelChanged(channel_name), from the pick list of show_game
ChannelChanged(channel_name) ==
    /\ app = "running"
    /\ channel_name \in OfferedChannels
    /\ selected_channel' = Some(channel_name)
    /\ UNCHANGED <<downloads, pipes, msgs, screen, selected_game, app, config_vars, lock_vars, ipc_vars, launcher>>

\* Message::Run(release): the unwrap of the selected game, then
\* Blackboard::run_release, which starts the game, waits for its exit and
\* sets is_playing, or panics in its expect when the spawn fails. The play
\* button of the FoundUpdate dialog starts the game the command line asked for.
Run(release, spawn_ok) ==
    /\ app = "running"
    /\ release \in OfferedRuns
    /\ DialogShown => launcher.launched < MaxLaunches
    /\ IF selected_game # None /\ spawn_ok
       THEN /\ app' = app
            /\ launcher' = [ launcher EXCEPT !.is_playing = TRUE,
                                !.launched = IF DialogShown THEN @ + 1 ELSE @ ]
       ELSE app' = "panicked" /\ launcher' = launcher
    /\ UNCHANGED <<downloads, pipes, msgs, screen, selected_game, selected_channel, config_vars, lock_vars, ipc_vars>>

DownloadingFromQueue ==
    /\ app = "running"
    /\ msgs # <<>>
    /\ IsEvent(Head(msgs))
    /\ Head(msgs).item.kind = "Downloading"
    /\ msgs' = Tail(msgs)
    /\ IF find_download(downloads, Head(msgs).id) = 0
       THEN app' = "panicked" /\ UNCHANGED <<downloads, pipes>>
       ELSE /\ app' = app
            /\ downloads' = on_downloading(downloads, Head(msgs).id,
                                           Head(msgs).item.percent)
            /\ pipes' = subscription(downloads', pipes)
    /\ UNCHANGED <<screen, selected_game, selected_channel, config_vars, lock_vars, ipc_vars, launcher>>

ErrFromQueue ==
    /\ app = "running"
    /\ msgs # <<>>
    /\ IsEvent(Head(msgs))
    /\ Head(msgs).item.kind = "Err"
    /\ msgs' = Tail(msgs)
    /\ IF find_download(downloads, Head(msgs).id) = 0
       THEN app' = "panicked" /\ UNCHANGED <<downloads, pipes>>
       ELSE /\ app' = app
            /\ downloads' = on_download_error(downloads, Head(msgs).id,
                                              Head(msgs).item.error)
            /\ pipes' = subscription(downloads', pipes)
    /\ UNCHANGED <<screen, selected_game, selected_channel, config_vars, lock_vars, ipc_vars, launcher>>

\* Blackboard::update_selected_game on the document cfg: the fresh copy of the
\* selected game, or a panic when the account no longer lists it
update_selected_game(selected, cfg) ==
    IF selected = None THEN [ ok |-> TRUE, selected_game |-> selected ]
    ELSE LET games == get_active_account(cfg)[1].games
             is_selected(x) == x.name_id = selected[1].name_id
             at == FirstIndex(games, is_selected)
         IN  IF at = 0 THEN [ ok |-> FALSE, selected_game |-> selected ]
             ELSE [ ok |-> TRUE, selected_game |-> Some(games[at]) ]

\* Message::DownloadProgressing((id, Ok(Finished { release })))
FinishedFromQueue ==
    /\ app = "running"
    /\ msgs # <<>>
    /\ IsEvent(Head(msgs))
    /\ Head(msgs).item.kind = "Finished"
    /\ get_active_account(config) # None
    /\ msgs' = Tail(msgs)
    /\ LET id == Head(msgs).id
           release == Head(msgs).item.release
           r == update_install_state(config, disk, release.game_name_id,
                                     release.version, release.channel_name, "Installed")
           u == update_selected_game(selected_game, r.config)
       IN  /\ config' = r.config
           /\ ret' = [ op |-> "update_install_state", ok |-> r.ok ]
           /\ selected_game' = u.selected_game
           /\ IF ~u.ok
              THEN /\ app' = "panicked"
                   /\ screen' = IF r.ok THEN screen ELSE "Error"
                   /\ disk' = r.disk
                   /\ UNCHANGED <<downloads, pipes>>
              ELSE /\ disk' = save(r.config)
                   /\ screen' = "Main"
                   /\ downloads' = retain_other(downloads, id)
                   /\ pipes' = subscription(downloads', pipes)
                   /\ app' = IF u.selected_game = None THEN "panicked" ELSE app
    /\ UNCHANGED <<syncs, selected_channel, lock_vars, ipc_vars, launcher>>

\* Message::CloseDownloadError(id), from the Ok button the view shows for the
\* selected game when its download is Errored
CloseDownloadError(id) ==
    /\ app = "running"
    /\ ShowsDownload
    /\ selected_game[1].name_id = id
    /\ downloads[find_download(downloads, id)].state.kind = "Errored"
    /\ downloads' = retain_other(downloads, id)
    /\ screen' = "Main"
    /\ pipes' = subscription(downloads', pipes)
    /\ UNCHANGED <<msgs, selected_game, selected_channel, app, config_vars, lock_vars, ipc_vars, launcher>>

\* the library an earlier session left in config.json: two games of the
\* catalog, the second with a release on each of two channels, nothing
\* installed
LoadedLibrary ==
    handle_game_response(<<>>,
        << RemoteGame("g1", 1, << [ channel |-> "stable", version |-> "1.0.0",
                                    size_bytes |-> 2, release_date |-> 1 ] >>),
           RemoteGame("g2", 1, << [ channel |-> "stable", version |-> "1.0.0",
                                    size_bytes |-> 2, release_date |-> 1 ],
                                  [ channel |-> "beta", version |-> "1.1.0",
                                    size_bytes |-> 2, release_date |-> 2 ] >>) >>).games

\* the catalogs the server answers with while downloads run
DownloadCatalogs ==
    { << RemoteGame("g1", 2, << [ channel |-> "stable", version |-> "1.1.0",
                                  size_bytes |-> 3,
        release_date |-> 2 ] >>) >> }

InitDownload ==
    /\ config = ConfiguredConfig(LoadedLibrary)
    /\ disk = config
    /\ ret = [ op |-> "sync_and_save", ok |-> TRUE ]
    /\ syncs = 1
    /\ InitDownloadIdle
    /\ InitLockIdle
    /\ InitIpcIdle
    /\ InitLauncherIdle

NextDownload ==
    \/ \E i \in 1..Len(ActiveGames) : SelectGame(ActiveGames[i])
    \/ \E channel_name \in OfferedChannels : ChannelChanged(channel_name)
    \/ \E o \in OfferedReleases : Download(o.game, o.release)
    \/ \E release \in OfferedRuns, spawn_ok \in BOOLEAN : Run(release, spawn_ok)
    \/ \E g \in GameIds : CloseDownloadError(g)
    \/ DownloadingFromQueue
    \/ FinishedFromQueue
    \/ ErrFromQueue
    \/ \E c \in DownloadCatalogs : app = "running" /\ SyncAndSave(c)
    \/ \E g \in GameIds : PipeStart(g)
    \/ \E g \in GameIds : PipeRequestOk(g)
    \/ \E g \in GameIds : PipeRequestFailed(g)
    \/ \E g \in GameIds, len \in ChunkLens : PipeChunk(g, len)
    \/ \E g \in GameIds, fate \in Fates : PipeStreamEnd(g, fate)
    \/ \E g \in GameIds, fate \in Fates : PipeChunkFailed(g, fate)

SpecDownload == InitDownload /\ [][NextDownload]_vars

\* C4: the downloads list never holds two entries with the same game_name_id
\* (a Download message for a game that has an entry leaves the list alone).
C4_OneDownloadPerGame ==
    \A i, j \in 1..Len(downloads) :
        downloads[i].game_name_id = downloads[j].game_name_id => i = j

InstalledKeys(game) ==
    { [ channel_name |-> game.releases[k].channel_name,
        version |-> game.releases[k].version ] :
        k \in { n \in 1..Len(game.releases) : game.releases[n].state = "Installed" } }

\* the releases of the i-th game of the list `after` that are Installed and
\* were not Installed in the i-th game of the list `before`
NewlyInstalled(before, after, i) ==
    IF i <= Len(before)
    THEN InstalledKeys(after[i]) \ InstalledKeys(before[i])
    ELSE InstalledKeys(after[i])

\* the step handles the event at the head of the queue
HandlesHead == msgs # <<>> /\ IsEvent(Head(msgs)) /\ msgs' = Tail(msgs)

\* C5: a release becomes Installed only in the step that handles a Finished
\* event for exactly its game id, channel and version; no Download, progress,
\* error, dismissal or catalog sync step sets a release to Installed.
C5_InstalledOnlyByFinished ==
    [][ LET before == get_active_account(config)[1].games
            after == get_active_account(config')[1].games
        IN  \A i \in 1..Len(after) :
              \A key \in NewlyInstalled(before, after, i) :
                 /\ HandlesHead
                 /\ Head(msgs).item.kind = "Finished"
                 /\ Head(msgs).item.release =
                        [ game_name_id |-> after[i].name_id,
                          version |-> key.version,
                          channel_name |-> key.channel_name ] ]_vars

\* a Finished event was handled and its release is recorded as Installed
C5_Witness ==
    /\ ret = [ op |-> "update_install_state", ok |-> TRUE ]
    /\ \E i \in 1..Len(ActiveGames) : InstalledKeys(ActiveGames[i]) # {}
    /\ app = "running"

IsTerminal(item) == item.kind \in {"Finished", "Err"}

\* C6: every stream emits Downloading at 0 percent first and sends the request
\* only after that; a Finished event or an error item is the last item of its
\* stream.
C6_EventOrdering ==
    \A g \in GameIds :
        pipes[g].pc # "none" =>
            LET emitted == pipes[g].emitted
            IN  /\ pipes[g].pc = "start" => emitted = <<>> /\ ~pipes[g].requested
                /\ pipes[g].pc # "start" =>
                      /\ emitted # <<>>
                      /\ emitted[1] = ProgressItem(ZeroPercent)
                /\ \A k \in 1..Len(emitted) :
                      IsTerminal(emitted[k]) => k = Len(emitted)
                /\ (emitted # <<>> /\ IsTerminal(emitted[Len(emitted)])) =>
                      pipes[g].pc = "ended"

\* a stream that returned without a Finished event has yielded an error item
FailureReported(pipe) ==
    (pipe.pc = "ended"
        /\ \A k \in 1..Len(pipe.emitted) : pipe.emitted[k].kind # "Finished")
    => \E k \in 1..Len(pipe.emitted) : pipe.emitted[k].kind = "Err"

\* handling an error item marks the task of that game Errored with the error,
\* keeps the process running and leaves the config and its file alone
ErrHandled ==
    (app = "running" /\ HandlesHead /\ Head(msgs).item.kind = "Err") =>
        LET at == find_download(downloads, Head(msgs).id)
        IN  /\ at # 0
            /\ Len(downloads') = Len(downloads)
            /\ downloads'[at].state = Errored(Head(msgs).item.error)
            /\ app' = "running"
            /\ config' = config
            /\ disk' = disk

\* a task that is Errored stays Errored, with its error, until the dismissal
\* of the error of its game removes it
ErroredKept ==
    \A i \in 1..Len(downloads) :
        downloads[i].state.kind = "Errored" =>
            \/ \E j \in 1..Len(downloads') : downloads'[j] = downloads[i]
            \/ /\ downloads' = retain_other(downloads, downloads[i].game_name_id)
               /\ msgs' = msgs
               /\ screen' = "Main"

\* C7: every failure of a stream (request, empty response, invalid archive,
\* I/O failure of the extraction) is reported as an error item; handling the
\* item puts the task into Errored without ending the process or touching
\* the install state, and the task stays Errored until it is dismissed.
C7_FailuresContained ==
    /\ [](\A g \in GameIds : pipes[g].pc # "none" => FailureReported(pipes[g]))
    /\ [][ErrHandled]_vars
    /\ [][ErroredKept]_vars

\* the stream of a response that ended
StreamEnded(pipe) ==
    /\ pipe.pc \in {"ended", "panicked"}
    /\ pipe.requested
    /\ \A k \in 1..Len(pipe.emitted) : pipe.emitted[k] # ErrItem("RequestFailed")

\* C8: a stream whose response ended with zero bytes received ends with
\* EmptyResponse, has not tried to parse or extract the buffer, and has no
\* Finished event.
C8_EmptyResponse ==
    \A g \in GameIds :
        (pipes[g].pc # "none" /\ StreamEnded(pipes[g]) /\ pipes[g].downloaded = 0) =>
            /\ pipes[g].pc = "ended"
            /\ \E k \in 1..Len(pipes[g].emitted) :
                   pipes[g].emitted[k] = ErrItem("EmptyResponse")
            /\ ~pipes[g].parsed
            /\ \A k \in 1..Len(pipes[g].emitted) : pipes[g].emitted[k].kind # "Finished"

\* a response that delivered a chunk of no bytes and then ended
C8_Witness ==
    \E g \in GameIds :
        /\ pipes[g].pc = "ended"
        /\ pipes[g].downloaded = 0
        /\ Len(pipes[g].emitted) = 3
        /\ pipes[g].emitted[3] = ErrItem("EmptyResponse")

(***************************************************************************)
(* One download, for every expected size and every sequence of chunks      *)
(***************************************************************************)
ProgressSizes == {1, 2}
ProgressChunkLens == {0, 1, 2, 3}

\* the library with one game whose release the catalog gave the size n
ProgressLibrary(n) ==
    handle_game_response(<<>>,
        << RemoteGame("g1", 1, << [ channel |-> "stable", version |-> "1.0.0",
                                    size_bytes |-> n,
        release_date |-> 1 ] >>) >>).games

\* the game is selected and Message::Download for its release was handled
InitProgress ==
    /\ \E n \in ProgressSizes :
          /\ config = ConfiguredConfig(ProgressLibrary(n))
          /\ selected_game = Some(ProgressLibrary(n)[1])
          /\ selected_channel = channel_of_game(ProgressLibrary(n)[1])
          /\ downloads = on_download(<<>>,
                DownloadRequest(ProgressLibrary(n)[1].releases[1], ProgressLibrary(n)[1]))
    /\ pipes = subscription(downloads, [ g \in GameIds |-> NoPipe ])
    /\ msgs = <<>>
    /\ screen = "Downloading"
    /\ app = "running"
    /\ disk = config
    /\ ret = [ op |-> "sync_and_save", ok |-> TRUE ]
    /\ syncs = 1
    /\ InitLockIdle
    /\ InitIpcIdle
    /\ InitLauncherIdle

NextProgress ==
    \/ DownloadingFromQueue
    \/ FinishedFromQueue
    \/ ErrFromQueue
    \/ \E g \in GameIds : PipeStart(g)
    \/ \E g \in GameIds : PipeRequestOk(g)
    \/ \E g \in GameIds : PipeRequestFailed(g)
    \/ \E g \in GameIds, len \in ProgressChunkLens : PipeChunk(g, len)
    \/ \E g \in GameIds, fate \in Fates : PipeStreamEnd(g, fate)
    \/ \E g \in GameIds, fate \in Fates : PipeChunkFailed(g, fate)

SpecProgress == InitProgress /\ [][NextProgress]_vars

\* p <= q for percentages with a positive expected size
PercentLeq(p, q) == p.num * q.den <= q.num * p.den

\* C17: download progress bounds. In a stream that ends with Finished the
\* reported percentages never decrease and the last one before Finished is at
\* most 100, whatever the expected size and the chunk lengths.
C17_ProgressBounds ==
    \A g \in GameIds :
        ( /\ pipes[g].pc = "ended"
          /\ pipes[g].emitted[Len(pipes[g].emitted)].kind = "Finished" ) =>
            LET emitted == pipes[g].emitted
                last == Len(emitted) - 1
            IN  /\ \A k \in 1..(last - 1) :
                      PercentLeq(emitted[k].percent, emitted[k + 1].percent)
                /\ PercentLeq(emitted[last].percent, [ num |-> 100, den |-> 1 ])

\* the stream of g is still receiving: it has not left the while loop
Receiving(pipe) == pipe.pc \in {"start", "requesting", "streaming"}

\* C25: no extraction before full receipt. A run of the pipeline creates the
\* install directory and writes extracted files only in the step in which the
\* response stream has ended with bytes received and the buffer was parsed,
\* so at every point at which a stream is still receiving it has written
\* nothing, and dropping it there leaves no file.
C25_NoEarlyExtraction ==
    /\ [] \A g \in GameIds :
          /\ (pipes[g].pc # "none" /\ pipes[g].wrote) =>
                (pipes[g].pc = "ended" /\ pipes[g].parsed /\ pipes[g].downloaded > 0)
          /\ Receiving(pipes[g]) => ~pipes[g].wrote
    /\ [][ \A g \in GameIds :
             (pipes[g].pc # "none" /\ pipes'[g].pc # "none"
                 /\ pipes'[g].wrote /\ ~pipes[g].wrote) =>
                    (pipes[g].pc = "streaming" /\ pipes'[g].pc = "ended") ]_vars

\* a stream received its bytes in two chunks, left the loop and unpacked its
\* archive
C25_Witness ==
    \E g \in GameIds :
        /\ pipes[g].pc = "ended"
        /\ pipes[g].wrote
        /\ pipes[g].downloaded > 1
        /\ Len(pipes[g].emitted) >= 4

(***************************************************************************)
(* Downloads of one game while the server's catalog names that game twice  *)
(***************************************************************************)
\* the library of an account whose catalog had one game with one release
LifecycleLibrary ==
    handle_game_response(<<>>,
        << RemoteGame("g1", 1, << [ channel |-> "stable", version |-> "1.0.0",
                                    size_bytes |-> 2,
        release_date |-> 1 ] >>) >>).games

\* the catalog the server answers with: the game is listed twice
LifecycleCatalogs == { << RemoteGame("g1", 2, <<>>), RemoteGame("g1", 2, <<>>) >> }

InitLifecycle ==
    /\ config = ConfiguredConfig(LifecycleLibrary)
    /\ disk = config
    /\ ret = NoReturn
    /\ syncs = 0
    /\ InitDownloadIdle
    /\ InitLockIdle
    /\ InitIpcIdle
    /\ InitLauncherIdle

NextLifecycle ==
    \/ \E i \in 1..Len(ActiveGames) : SelectGame(ActiveGames[i])
    \/ \E o \in OfferedReleases : Download(o.game, o.release)
    \/ \E g \in GameIds : CloseDownloadError(g)
    \/ DownloadingFromQueue
    \/ FinishedFromQueue
    \/ ErrFromQueue
    \/ \E c \in LifecycleCatalogs : app = "running" /\ SyncAndSave(c)
    \/ \E g \in GameIds : PipeStart(g)
    \/ \E g \in GameIds : PipeRequestOk(g)
    \/ \E g \in GameIds : PipeRequestFailed(g)
    \/ \E g \in GameIds, len \in ChunkLens : PipeChunk(g, len)
    \/ \E g \in GameIds, fate \in Fates : PipeStreamEnd(g, fate)
    \/ \E g \in GameIds, fate \in Fates : PipeChunkFailed(g, fate)

SpecLifecycle == InitLifecycle /\ [][NextLifecycle]_vars

\* the tasks of the list for game id g, in list order
TasksOf(dls, g) ==
    LET of_game(x) == x.game_name_id = g
    IN  FilterSeq(dls, of_game)

\* the release is Installed in the active account of document cfg
RecordedInstalled(cfg, release) ==
    \E i \in 1..Len(get_active_account(cfg)[1].games) :
        LET game == get_active_account(cfg)[1].games[i]
        IN  /\ game.name_id = release.game_name_id
            /\ [ channel_name |-> release.channel_name,
                 version |-> release.version ] \in InstalledKeys(game)

\* the step handles Finished for game id g with the install state recorded,
\* in memory and on disk
CompletesRecorded(g) ==
    /\ HandlesHead
    /\ Head(msgs).id = g
    /\ Head(msgs).item.kind = "Finished"
    /\ ret' = [ op |-> "update_install_state", ok |-> TRUE ]
    /\ RecordedInstalled(config', Head(msgs).item.release)
    /\ disk' = config'

\* the step is the dismissal of the error shown for game id g
Dismisses(g) ==
    /\ find_download(downloads, g) # 0
    /\ downloads[find_download(downloads, g)].state.kind = "Errored"
    /\ msgs' = msgs
    /\ screen' = "Main"

\* C26: download task lifecycle. A task for a game id appears only by a
\* Download message for that id; tasks of an id leave the list only in the
\* step that handles the Finished event of that id, with the install state
\* recorded in the config, or in the dismissal of the error of that id; so an
\* Errored task stays until dismissed, and no step for one id removes a task
\* of another id.
C26_TaskLifecycle ==
    [][ \A g \in GameIds :
          LET before == TasksOf(downloads, g)
              after == TasksOf(downloads', g)
          IN  /\ Len(after) > Len(before) =>
                    \E o \in OfferedReleases :
                        /\ downloads' = Append(downloads,
                               Download_new(DownloadRequest(o.release, o.game)))
                        /\ o.game.name_id = g
              /\ Len(after) < Len(before) =>
                    /\ CompletesRecorded(g) \/ Dismisses(g)
                    /\ \A h \in GameIds \ {g} :
                          TasksOf(downloads', h) = TasksOf(downloads, h) ]_vars

(***************************************************************************)
(* ipc.rs: the instance lock. Processes open, fill and lock drops.lock,    *)
(* and give it up again. An exclusive lock belongs to the open file (the   *)
(* inode), not to the path: a file that was removed stays locked by the    *)
(* process that has it open, and the path can name a new file.             *)
(***************************************************************************)
NProcs == 3

Procs == 1..NProcs

\* a process creates at most one file, so its own number names that inode
Inodes == Procs

\* std::process::id() of process p; the ids differ in length
ProcessId(p) == 98 + p

\* a file is the decimal number its bytes spell; an empty file spells none
NoContent == 0

\* number of bytes of a file
RECURSIVE Digits(_)
Digits(n) == IF n = 0 THEN 0 ELSE 1 + Digits(n \div 10)

RECURSIVE Pow10(_)
Pow10(k) == IF k = 0 THEN 1 ELSE 10 * Pow10(k - 1)

\* file.write_all(pid) through a file just opened: the bytes go to the start
\* of the file and what the file holds behind them stays
write_all(content, pid) ==
    LET rest == Digits(content) - Digits(pid)
    IN  IF rest <= 0 THEN pid
        ELSE (pid * Pow10(rest)) + (content % Pow10(rest))

InitLock ==
    /\ lock_path = 0
    /\ inode_content = [ i \in Inodes |-> NoContent ]
    /\ inode_lock = [ i \in Inodes |-> 0 ]
    /\ procs = [ p \in Procs |-> [ pc |-> "start", lock_file |-> 0 ] ]
    /\ config = ConfiguredConfig(<<>>)
    /\ disk = config
    /\ ret = NoReturn
    /\ syncs = 0
    /\ InitDownloadIdle
    /\ InitIpcIdle
    /\ InitLauncherIdle

\* OpenOptions with create_new: an existing file makes new() return Err
OpenLockFile_create_new(p) ==
    /\ procs[p].pc = "start"
    /\ IF lock_path = 0
       THEN /\ lock_path' = p
            /\ inode_content' = [ inode_content EXCEPT ![p] = NoContent ]
            /\ procs' = [ procs EXCEPT ![p] = [ pc |-> "opened", lock_file |-> p ] ]
       ELSE /\ procs' = [ procs EXCEPT ![p].pc = "exited" ]
            /\ UNCHANGED <<lock_path, inode_content>>
    /\ UNCHANGED <<inode_lock, config_vars, download_vars, ipc_vars, launcher>>

\* OpenOptions read, write, create, truncate on lock_file_path
OpenLockFile(p) ==
    /\ procs[p].pc = "start"
    /\ LET inode == IF lock_path = 0 THEN p ELSE lock_path
       IN  /\ lock_path' = inode
           /\ inode_content' = [ inode_content EXCEPT ![inode] = NoContent ]
           /\ procs' = [ procs EXCEPT ![p] = [ pc |-> "opened", lock_file |-> inode ] ]
    /\ UNCHANGED <<inode_lock, config_vars, download_vars, ipc_vars, launcher>>

\* file.write_all of the process id
WritePid(p) ==
    /\ procs[p].pc = "opened"
    /\ inode_content' = [ inode_content EXCEPT ![procs[p].lock_file] = write_all(@, ProcessId(p)) ]
    /\ procs' = [ procs EXCEPT ![p].pc = "written" ]
    /\ UNCHANGED <<lock_path, inode_lock, config_vars, download_vars, ipc_vars, launcher>>

\* file.lock_exclusive returns once no other open file holds the lock
LockExclusive(p) ==
    /\ procs[p].pc = "written"
    /\ inode_lock[procs[p].lock_file] = 0
    /\ inode_lock' = [ inode_lock EXCEPT ![procs[p].lock_file] = p ]
    /\ procs' = [ procs EXCEPT ![p].pc = "primary" ]
    /\ UNCHANGED <<lock_path, inode_content, config_vars, download_vars, ipc_vars, launcher>>

\* Drop::drop, first half: self.lock_file.unlock()
Unlock(p) ==
    /\ procs[p].pc = "primary"
    /\ inode_lock' = [ inode_lock EXCEPT ![procs[p].lock_file] = 0 ]
    /\ procs' = [ procs EXCEPT ![p].pc = "unlocked" ]
    /\ UNCHANGED <<lock_path, inode_content, config_vars, download_vars, ipc_vars, launcher>>

\* a drop that unlocks and leaves the file at the path
RemoveLockFile_keeps_file(p) ==
    /\ procs[p].pc = "unlocked"
    /\ procs' = [ procs EXCEPT ![p].pc = "exited" ]
    /\ UNCHANGED <<lock_path, inode_content, inode_lock, config_vars, download_vars, ipc_vars, launcher>>

\* Drop::drop, second half: fs::remove_file(&self.path).expect(..)
RemoveLockFile(p) ==
    /\ procs[p].pc = "unlocked"
    /\ IF lock_path # 0
       THEN /\ lock_path' = 0
            /\ procs' = [ procs EXCEPT ![p].pc = "exited" ]
       ELSE /\ lock_path' = lock_path
            /\ procs' = [ procs EXCEPT ![p].pc = "panicked" ]
    /\ UNCHANGED <<inode_content, inode_lock, config_vars, download_vars, ipc_vars, launcher>>

NextLock ==
    \E p \in Procs :
        \/ OpenLockFile(p)
        \/ WritePid(p)
        \/ LockExclusive(p)
        \/ Unlock(p)
        \/ RemoveLockFile(p)

SpecLock == InitLock /\ [][NextLock]_vars

Primaries == { p \in Procs : procs[p].pc = "primary" }

\* C3: single active lock. At any time at most one live process has come out
\* of LockFileWithDrop::new with the exclusive lock and not yet given it up
\* (is Primary), also while a holder unlocks and deletes the file and others
\* open or wait on it.
C3_SingleActiveLock == Cardinality(Primaries) <= 1

\* a process blocked in lock_exclusive: the file it opened is locked by another
Waiting(p) ==
    /\ procs[p].pc = "written"
    /\ inode_lock[procs[p].lock_file] # 0

\* C18: forwarding by secondary instances. Of the instances started together
\* one becomes Primary, and no other waits for the lock the primary holds:
\* each finds it held and leaves to forward its argument.
C18_SecondariesForward ==
    /\ Cardinality(Primaries) <= 1
    /\ \A p \in Procs : ~Waiting(p)

\* LockFileWithDrop::read_lock: the pid parsed from the file at the path
read_lock ==
    IF lock_path = 0 THEN None
    ELSE IF inode_content[lock_path] = NoContent THEN None
    ELSE Some(inode_content[lock_path])

\* the live process holding the lock of the file at the path, 0 when none
Holder == IF lock_path = 0 THEN 0 ELSE inode_lock[lock_path]

\* C19: the lock file names its holder. While a process holds the lock of the
\* lock file, read_lock returns that process's pid, and only the holder of a
\* file's lock ever changes the file's content.
C19_LockFileNamesHolder ==
    /\ [](Holder # 0 => read_lock = Some(ProcessId(Holder)))
    /\ [][ \A i \in Inodes :
             inode_content'[i] # inode_content[i] =>
                (inode_lock[i] # 0 /\ procs'[inode_lock[i]] # procs[inode_lock[i]]) ]_vars

(***************************************************************************)
(* ipc.rs: a holder that dies. A process that is killed runs no Drop: the  *)
(* operating system closes its files, which releases the lock, and the     *)
(* file stays at the path with the dead process's pid in it.               *)
(***************************************************************************)
Crash(p) ==
    /\ procs[p].pc = "primary"
    /\ inode_lock' = [ inode_lock EXCEPT ![procs[p].lock_file] = 0 ]
    /\ procs' = [ procs EXCEPT ![p].pc = "crashed" ]
    /\ UNCHANGED <<lock_path, inode_content, config_vars, download_vars, ipc_vars, launcher>>

NextStale ==
    \E p \in Procs :
        \/ OpenLockFile(p)
        \/ WritePid(p)
        \/ LockExclusive(p)
        \/ Unlock(p)
        \/ RemoveLockFile(p)
        \/ Crash(p)

\* a process that entered LockFileWithDrop::new runs it to its end
FairNew ==
    \A p \in Procs :
        /\ WF_vars(OpenLockFile(p))
        /\ WF_vars(WritePid(p))
        /\ WF_vars(LockExclusive(p))

SpecStale == InitLock /\ [][NextStale]_vars /\ FairNew

\* the file at the path is unlocked and records the pid of a dead process
StaleLock ==
    /\ lock_path # 0
    /\ inode_lock[lock_path] = 0
    /\ \E q \in Procs : /\ inode_content[lock_path] = ProcessId(q)
                        /\ procs[q].pc = "crashed"

\* C20: stale-lock recovery. When the lock file is a leftover of a crashed
\* holder, an instance that starts and calls LockFileWithDrop::new gets the
\* lock and becomes Primary; the only thing that can keep it waiting is
\* another live instance that became Primary first, never the leftover file.
C20_StaleLockRecovery ==
    \A p \in Procs :
        (StaleLock /\ procs[p].pc = "start") ~>
            (procs[p].pc = "primary" \/ \E q \in Procs \ {p} : procs[q].pc = "primary")

\* an instance is Primary on the file a crashed holder left behind
C20_Witness ==
    \E p, q \in Procs :
        /\ procs[p].pc = "primary"
        /\ procs[q].pc = "crashed"
        /\ procs[p].lock_file = procs[q].lock_file
        /\ inode_lock[procs[p].lock_file] = p

\* the drop of p has run: p left drop, by its end or by the panic of expect
Dropped(p) == procs[p].pc \in {"exited", "panicked"}

\* C21: clean release. When the LockFileWithDrop of a primary is dropped, its
\* lock is released and the file at the well-known path is deleted: at the end
\* of the drop no lock file exists at the path and the process holds no lock,
\* and an instance that starts after a drop becomes Primary unless another
\* live instance is Primary.
C21_CleanRelease ==
    /\ [][ \A p \in Procs :
             (procs[p].pc = "unlocked" /\ Dropped(p)') =>
                 (lock_path' = 0 /\ \A i \in Inodes : inode_lock'[i] # p) ]_vars
    /\ \A p \in Procs : \A q \in Procs \ {p} :
         (Dropped(p) /\ procs[q].pc = "start") ~>
             (\E r \in Procs \ {p} : procs[r].pc = "primary")

\* after a drop that deleted the file, a later instance is Primary on a new file
C21_Witness ==
    \E p, q \in Procs :
        /\ procs[p].pc = "exited"
        /\ procs[q].pc = "primary"
        /\ procs[q].lock_file = q
        /\ procs[q].lock_file # procs[p].lock_file
        /\ inode_lock[q] = q

(***************************************************************************)
(* ipc.rs: forwarding. A secondary instance calls try_send_args, which     *)
(* joins the bus "drops-client" as "client" and sends its one argument to  *)
(* the label "server"; the primary's handle_other_clients_opening joins as *)
(* "server" and turns what it receives into Event::ArgsReceived. Whether   *)
(* ipmb::join and Sender::send succeed is decided outside the program.     *)
(***************************************************************************)
NClients == 2
MaxArgs == 2

Clients == 1..NClients

\* env::args().skip(1).collect()
ArgLists == SeqsUpTo(GameIds, MaxArgs)

Ok == [ ok |-> TRUE ]
Err(e) == [ ok |-> FALSE, error |-> e ]

\* ipmb::Message::new(Selector::unicast("server"), arg)
IpmbMessage(arg) == [ selector |-> "server", payload |-> arg ]

\* a forward whose send error is dropped instead of returned
forward_arg_swallowed(arg, join_ok, send_ok) ==
    IF ~join_ok
    THEN [ ret |-> None, joined |-> FALSE, sends |-> <<>>, accepted |-> <<>> ]
    ELSE [ ret |-> Some(Ok), joined |-> TRUE, sends |-> << IpmbMessage(arg) >>,
           accepted |-> IF send_ok THEN << arg >> ELSE <<>> ]

\* try_send_args, the block of the one argument: join (expect), send (?), Ok.
\* ret is None when the expect panicked, else Some of what is returned.
forward_arg(arg, join_ok, send_ok) ==
    IF ~join_ok
    THEN [ ret |-> None, joined |-> FALSE, sends |-> <<>>, accepted |-> <<>> ]
    ELSE IF ~send_ok
    THEN [ ret |-> Some(Err("SendError")), joined |-> TRUE,
           sends |-> << IpmbMessage(arg) >>, accepted |-> <<>> ]
    ELSE [ ret |-> Some(Ok), joined |-> TRUE,
           sends |-> << IpmbMessage(arg) >>, accepted |-> << arg >> ]

\* a try_send_args that joins and sends the first argument before counting
try_send_args_sends_first(args, join_ok, send_ok) ==
    IF args = <<>>
    THEN [ ret |-> Some(Ok), joined |-> FALSE, sends |-> <<>>, accepted |-> <<>> ]
    ELSE LET sent == forward_arg(args[1], join_ok, send_ok)
         IN  IF Len(args) > 1 /\ sent.ret # None
             THEN [ sent EXCEPT !.ret = Some(Err("invalid number of arguments!")) ]
             ELSE sent

try_send_args(args, join_ok, send_ok) ==
    IF Len(args) > 1
    THEN [ ret |-> Some(Err("invalid number of arguments!")), joined |-> FALSE,
           sends |-> <<>>, accepted |-> <<>> ]
    ELSE IF Len(args) # 1
    THEN [ ret |-> Some(Ok), joined |-> FALSE, sends |-> <<>>, accepted |-> <<>> ]
    ELSE forward_arg(args[1], join_ok, send_ok)

InitIpc ==
    /\ clients \in [ Clients -> { [ pc |-> "start", args |-> a ] : a \in ArgLists } ]
    /\ bus = <<>>
    /\ server = [ pc |-> "join", message |-> None, arrived |-> <<>>, events |-> <<>> ]
    /\ config = ConfiguredConfig(<<>>)
    /\ disk = config
    /\ ret = NoReturn
    /\ syncs = 0
    /\ InitDownloadIdle
    /\ InitLockIdle
    /\ InitLauncherIdle

\* a secondary instance runs try_send_args; what the bus accepted is in flight
TrySendArgs(c, join_ok, send_ok) ==
    /\ clients[c].pc = "start"
    /\ LET out == try_send_args(clients[c].args, join_ok, send_ok)
       IN  /\ clients' = [ clients EXCEPT ![c] =
                  [ pc |-> "done", args |-> clients[c].args,
                    join_ok |-> join_ok, send_ok |-> send_ok, out |-> out ] ]
           /\ bus' = bus \o out.accepted
    /\ UNCHANGED <<server, config_vars, download_vars, lock_vars, launcher>>

\* ipmb::join(..).expect("failed to setup ipc server")
ServerJoin(join_ok) ==
    /\ server.pc = "join"
    /\ server' = [ server EXCEPT !.pc = IF join_ok THEN "yield" ELSE "panicked" ]
    /\ UNCHANGED <<clients, bus, config_vars, download_vars, lock_vars, launcher>>

\* output.send(Event::Yield): carries nothing and is not recorded
ServerYield ==
    /\ server.pc = "yield"
    /\ server' = [ server EXCEPT !.pc = "recv" ]
    /\ UNCHANGED <<clients, bus, config_vars, download_vars, lock_vars, launcher>>

\* receiver.recv returns Ok(message)
ServerRecvOk ==
    /\ server.pc = "recv"
    /\ bus # <<>>
    /\ server' = [ server EXCEPT !.pc = "emit", !.message = Some(Head(bus)),
                                 !.arrived = Append(@, Head(bus)) ]
    /\ bus' = Tail(bus)
    /\ UNCHANGED <<clients, config_vars, download_vars, lock_vars, launcher>>

\* receiver.recv returns Err(RecvError::Timeout): nothing arrived in time
ServerRecvTimeout ==
    /\ server.pc = "recv"
    /\ bus = <<>>
    /\ server' = [ server EXCEPT !.pc = "yield" ]
    /\ UNCHANGED <<clients, bus, config_vars, download_vars, lock_vars, launcher>>

\* receiver.recv returns another RecvError, which is logged
ServerRecvError ==
    /\ server.pc = "recv"
    /\ server' = [ server EXCEPT !.pc = "yield" ]
    /\ UNCHANGED <<clients, bus, config_vars, download_vars, lock_vars, launcher>>

\* an emit that drops the message it holds
ServerEmit_dropped ==
    /\ server.pc = "emit"
    /\ server' = [ server EXCEPT !.pc = "yield", !.message = None ]
    /\ UNCHANGED <<clients, bus, config_vars, download_vars, lock_vars, launcher>>

\* output.send(Event::ArgsReceived(message.payload))
ServerEmit ==
    /\ server.pc = "emit"
    /\ server' = [ server EXCEPT !.pc = "yield", !.message = None,
                                 !.events = Append(@, server.message[1]) ]
    /\ UNCHANGED <<clients, bus, config_vars, download_vars, lock_vars, launcher>>

NextIpc ==
    \/ \E c \in Clients, join_ok \in BOOLEAN, send_ok \in BOOLEAN :
           TrySendArgs(c, join_ok, send_ok)
    \/ \E join_ok \in BOOLEAN : ServerJoin(join_ok)
    \/ ServerYield
    \/ ServerRecvOk
    \/ ServerRecvTimeout
    \/ ServerRecvError
    \/ ServerEmit

\* the runtime takes every item the stream offers
SpecIpc == InitIpc /\ [][NextIpc]_vars /\ WF_vars(ServerEmit)

\* the secondary instances whose try_send_args has ended
Done == { c \in Clients : clients[c].pc = "done" }

\* C22: the argument count is checked first. With more than one argument
\* try_send_args returns the usage error without joining the bus or sending;
\* with none it returns Ok without sending; with exactly one it hands exactly
\* that argument, once, to send for the label "server" (when the join did not
\* panic). No run of it touches the lock file, and only a run with one
\* argument puts anything on the bus.
C22_ArgumentCountFirst ==
    /\ [] \A c \in Done :
          LET args == clients[c].args
              out == clients[c].out
          IN  /\ Len(args) > 1 =>
                    /\ out.ret = Some(Err("invalid number of arguments!"))
                    /\ ~out.joined /\ out.sends = <<>> /\ out.accepted = <<>>
              /\ Len(args) = 0 =>
                    /\ out.ret = Some(Ok)
                    /\ ~out.joined /\ out.sends = <<>> /\ out.accepted = <<>>
              /\ (Len(args) = 1 /\ out.joined) => out.sends = << IpmbMessage(args[1]) >>
              /\ (Len(args) = 1 /\ ~out.joined) => out.sends = <<>>
    /\ [][ \A c \in Clients :
             (clients[c].pc = "start" /\ clients'[c].pc = "done") =>
                 /\ UNCHANGED lock_vars
                 /\ Len(clients[c].args) # 1 => bus' = bus ]_vars

\* one instance was turned away for its two arguments, another sent its one
C22_Witness ==
    \E c, e \in Done :
        /\ Len(clients[c].args) = 2
        /\ clients[c].out.ret = Some(Err("invalid number of arguments!"))
        /\ Len(clients[e].args) = 1
        /\ clients[e].out.sends = << IpmbMessage(clients[e].args[1]) >>
        /\ bus = << clients[e].args[1] >>

RECURSIVE Count(_, _)
Count(seq, x) ==
    IF seq = <<>> THEN 0
    ELSE (IF Head(seq) = x THEN 1 ELSE 0) + Count(Tail(seq), x)

\* the secondary instances that were told their argument x was sent
ToldSent(x) ==
    { c \in Done : clients[c].args = << x >> /\ clients[c].out.ret = Some(Ok) }

\* C23: a failed send is not swallowed. When send fails, try_send_args returns
\* an error; when the join fails it panics and returns nothing; and every
\* instance that got Ok for its argument has put that argument on the bus: it
\* is in flight or has arrived at the primary.
C23_SendFailureReported ==
    /\ \A c \in Done :
          Len(clients[c].args) = 1 =>
             /\ ~clients[c].join_ok => clients[c].out.ret = None
             /\ (clients[c].join_ok /\ ~clients[c].send_ok) =>
                    (clients[c].out.ret # None /\ ~clients[c].out.ret[1].ok)
    /\ \A x \in GameIds :
          Cardinality(ToldSent(x)) = Count(bus, x) + Count(server.arrived, x)

\* one instance was refused by send and got an error, another got Ok and its
\* argument is in flight
C23_Witness ==
    \E c, e \in Done :
        /\ Len(clients[c].args) = 1
        /\ clients[c].join_ok /\ ~clients[c].send_ok
        /\ clients[c].out.ret # None
        /\ ~clients[c].out.ret[1].ok
        /\ Len(clients[e].args) = 1
        /\ e \in ToldSent(clients[e].args[1])
        /\ bus = << clients[e].args[1] >>

\* the message recv returned and the loop has not yet emitted
Held == IF server.pc = "emit" THEN << server.message[1] >> ELSE <<>>

\* C24: the primary's receive loop. Every argument recv returned becomes one
\* Event::ArgsReceived with the same string, in arrival order, each one
\* eventually; once joined the loop never ends, and after a timeout or any
\* other receive error it is back at the head of the loop.
C24_ReceiveLoop ==
    /\ [](server.arrived = server.events \o Held)
    /\ [](server.pc \in {"join", "panicked", "yield", "recv", "emit"})
    /\ [][ server.pc \in {"yield", "recv", "emit"} =>
               server'.pc \in {"yield", "recv", "emit"} ]_vars
    /\ [][ (server.pc = "recv" /\ server' # server /\ server'.pc # "emit") =>
               (server'.pc = "yield" /\ server'.arrived = server.arrived
                /\ bus' = bus) ]_vars
    /\ (server.pc = "emit") ~> (server.events = server.arrived)

\* two arguments arrived, an error in between, and both were surfaced in order
C24_Witness ==
    /\ Len(server.events) = 2
    /\ server.events = server.arrived
    /\ server.events[1] # server.events[2]
    /\ bus = <<>>

(***************************************************************************)
(* main.rs, handlers/wizard.rs, handlers/login.rs: accounts. The wizard    *)
(* adds an account, the login screen picks the active one and logs in, and *)
(* the results of the login and fetch tasks come back as messages. What    *)
(* the user typed into a form is an input of the handler that reads it.    *)
(***************************************************************************)
MaxAccounts == 2         \* accounts the wizard adds in one behaviour
MaxTasks == 2            \* login and fetch tasks in flight

Urls == {"url1", "url2"}
Usernames == {"user1"}
Tokens == {"id=1"}
NoToken == ""
\* Uuid::new_v4(): the n-th account gets an id no other account has
AccountIds == << "account1", "account2", "account3" >>
NoAccountId == "nil"

\* the kinds of FetchGamesError the update loop tells apart
FetchErrors == {"APIError", "Unreachable", "NotFound", "NeedRelogin", "BadCredentials"}
\* the session is no longer valid: the redirect and the 401
ReloginErrors == {"NeedRelogin", "BadCredentials"}

AccountCatalogs ==
    { << RemoteGame("g1", 1, << [ channel |-> "stable", version |-> "1.0.0",
                                  size_bytes |-> 2,
        release_date |-> 1 ] >>) >> }

\* the document handle_config_open makes up when config.json cannot be read
EmptyConfig == [ active_account |-> NoAccountId, accounts |-> <<>>, is_active |-> FALSE ]

\* a wizard that gives every account the same id
finish_wizard_same_id(cfg, url) ==
    LET account == [ id |-> AccountIds[1], url |-> url, username |-> "",
                     session_token |-> NoToken, games |-> <<>> ]
    IN  [ cfg EXCEPT !.is_active = TRUE, !.active_account = account.id,
                     !.accounts = Append(@, account) ]

\* Message::FinishWizard on document cfg, before the save
finish_wizard(cfg, url) ==
    LET account == [ id |-> AccountIds[Len(cfg.accounts) + 1], url |-> url,
                     username |-> "", session_token |-> NoToken, games |-> <<>> ]
    IN  [ cfg EXCEPT !.is_active = TRUE, !.active_account = account.id,
                     !.accounts = Append(@, account) ]

\* ClientConfig::set_active_account_by_url: the first account with the url
set_active_account_by_url(cfg, url) ==
    LET has_url(x) == x.url = url
    IN  [ cfg EXCEPT !.active_account = cfg.accounts[FirstIndex(cfg.accounts, has_url)].id ]

\* set_username_and_save, set_session_token, save
logged_in(cfg, username, token) ==
    LET named == [ cfg EXCEPT !.accounts[active_index(cfg)].username = username ]
        with_token == [ named EXCEPT !.accounts[active_index(cfg)].session_token = token ]
    IN  [ config |-> with_token, disk |-> save(with_token) ]

\* ClientConfig::clear_session_token
clear_session_token(cfg) ==
    LET cleared == [ cfg EXCEPT !.accounts[active_index(cfg)].session_token = NoToken ]
    IN  [ config |-> cleared, disk |-> save(cleared) ]

\* a handler that clears the credential on every fetch error
on_games_fetched_err_always(cfg, dsk, scr, e) ==
    LET c == clear_session_token(cfg)
    IN  [ config |-> c.config, disk |-> c.disk, screen |-> "Login" ]

\* Message::GamesFetched(Err(e)) with document cfg, dsk on disk and screen scr
on_games_fetched_err(cfg, dsk, scr, e) ==
    IF e \in ReloginErrors
    THEN LET c == clear_session_token(cfg)
         IN  [ config |-> c.config, disk |-> c.disk, screen |-> "Login" ]
    ELSE [ config |-> cfg, disk |-> dsk, screen |-> scr ]

\* tasks.rs perform_login: the task holds the url of the active account
perform_login(cfg) ==
    [ task |-> "login", account |-> cfg.active_account,
      drops_url |-> get_active_account(cfg)[1].url ]

\* tasks.rs perform_fetch_games_from_config: the task holds the url and the
\* session token of the account that is active when it is started
perform_fetch_games_from_config(cfg) ==
    [ task |-> "fetch", account |-> cfg.active_account,
      drops_url |-> get_active_account(cfg)[1].url ]

\* what handle_args_game_running leaves: the issue it returns,
\* blackboard.selected_game and blackboard.selected_channel
Issue(issue, selected, channel) ==
    [ issue |-> issue, selected_game |-> selected, selected_channel |-> channel ]

\* the end of handle_args_game_running: the installed release of the channel
\* against the latest release of the channel
issue_of_releases(game, channel, release, latest) ==
    IF release = None
    THEN Issue([ kind |-> "Error" ], Some(game), Some(channel))
    ELSE IF latest = None \/ latest[1].version = release[1].version
    THEN Issue([ kind |-> "CanPlay", release |-> release[1] ], Some(game), Some(channel))
    ELSE Issue([ kind |-> "FoundUpdate", game |-> game, new_release |-> latest[1],
                 installed_release |-> release[1] ], Some(game), Some(channel))

\* handle_args_game_running once the channel is known
issue_on_channel(game, channel) ==
    issue_of_releases(game, channel,
        newest_release_by_state(game.releases, Some(channel), Some("Installed")),
        newest_release_by_state(game.releases, Some(channel), None))

\* handle_args_game_running once the game is found: its selected channel, or
\* the channel of its newest installed release
issue_of_game(game, any_installed, channel) ==
    IF game.selected_channel = None /\ any_installed = None
    THEN Issue([ kind |-> "Error" ], Some(game), channel)
    ELSE issue_on_channel(game, IF game.selected_channel = None
                                THEN any_installed[1].channel_name
                                ELSE game.selected_channel[1])

\* handle_args_game_running with the index of the first game of the requested
\* name_id, 0 when the account has none
issue_of_index(games, at, selected, channel) ==
    IF at = 0 THEN Issue([ kind |-> "Error" ], selected, channel)
    ELSE issue_of_game(games[at],
             newest_release_by_state(games[at].releases, None, Some("Installed")),
             channel)

\* DropsClient::handle_args_game_running on the games of the active account,
\* with the selected game and channel it finds on the blackboard
handle_args_game_running(games, requested, selected, channel) ==
    IF requested = None THEN Issue([ kind |-> "NotSet" ], selected, channel)
    ELSE LET is_requested(x) == x.name_id = requested[1]
         IN  issue_of_index(games, FirstIndex(games, is_requested), selected, channel)

\* the end of Message::GamesFetched(Ok): on CanPlay run_release starts the
\* game and the issue is reset, or the spawn fails and the expect panics with
\* the issue still CanPlay
games_fetched_launch(l, h, spawn_ok) ==
    IF h.issue.kind = "CanPlay" /\ spawn_ok
    THEN [ l EXCEPT !.run_from_args_issue = [ kind |-> "NotSet" ],
                    !.launched = @ + 1, !.is_playing = TRUE ]
    ELSE [ l EXCEPT !.run_from_args_issue = h.issue ]

\* Message::GamesFetched(Ok) after sync_and_save returned r: the selected
\* game and channel, the launcher and whether run_release panicked
games_fetched_args(r, l, h, spawn_ok) ==
    [ ok |-> r.ok, config |-> r.config, disk |-> r.disk,
      selected_game |-> h.selected_game, selected_channel |-> h.selected_channel,
      launcher |-> games_fetched_launch(l, h, spawn_ok),
      panics |-> h.issue.kind = "CanPlay" /\ ~spawn_ok ]

games_fetched_synced(r, l, selected, channel, spawn_ok) ==
    games_fetched_args(r, l,
        handle_args_game_running(get_active_account(r.config)[1].games,
                                 l.requested_game_to_play, selected, channel),
        spawn_ok)

\* Message::GamesFetched(Ok(games_response)) on the state of the client
games_fetched_ok(cfg, dsk, l, selected, channel, games_response, spawn_ok) ==
    games_fetched_synced(sync_and_save(cfg, dsk, games_response), l, selected, channel,
                         spawn_ok)

InitAccount ==
    /\ config = EmptyConfig
    /\ disk = EmptyConfig
    /\ ret = NoReturn
    /\ syncs = 0
    /\ downloads = <<>>
    /\ pipes = [ g \in GameIds |-> NoPipe ]
    /\ msgs = <<>>
    /\ screen = "Wizard"
    /\ selected_game = None
    /\ selected_channel = None
    /\ app = "running"
    /\ InitLockIdle
    /\ InitIpcIdle
    /\ InitLauncherIdle

\* the place in msgs of the i-th task in flight
TaskAt(i) == Len(Events(msgs)) + i

\* the sequence without its i-th element
RemoveAt(seq, i) == SubSeq(seq, 1, i - 1) \o SubSeq(seq, i + 1, Len(seq))

\* Message::FinishWizard, with url in the wizard's host field
FinishWizard(url) ==
    /\ app = "running"
    /\ screen = "Wizard"
    /\ Len(config.accounts) < MaxAccounts
    /\ config' = finish_wizard(config, url)
    /\ disk' = save(config')
    /\ screen' = "Login"
    /\ UNCHANGED <<ret, syncs, downloads, pipes, msgs, selected_game, selected_channel, app, lock_vars, ipc_vars, launcher>>

\* Message::GoToScreen: "new server" on the login screen, "cancel" in the
\* wizard of a client that has an account
GoToScreen(to) ==
    /\ app = "running"
    /\ \/ screen = "Login" /\ to = "Wizard"
       \/ screen = "Wizard" /\ to = "Login" /\ config.is_active
    /\ screen' = to
    /\ UNCHANGED <<downloads, pipes, msgs, selected_game, selected_channel, app, config_vars, lock_vars, ipc_vars, launcher>>

\* Message::ServerChanged(url), from the pick list of the account urls
ServerChanged(url) ==
    /\ app = "running"
    /\ screen = "Login"
    /\ \E i \in 1..Len(config.accounts) : config.accounts[i].url = url
    /\ config' = set_active_account_by_url(config, url)
    /\ UNCHANGED <<disk, ret, syncs, download_vars, lock_vars, ipc_vars, launcher>>

\* Message::Login: the login task starts
Login ==
    /\ app = "running"
    /\ screen = "Login"
    /\ Len(Tasks(msgs)) < MaxTasks
    /\ screen' = "LoggingIn"
    /\ msgs' = Append(msgs, perform_login(config))
    /\ UNCHANGED <<downloads, pipes, selected_game, selected_channel, app, config_vars, lock_vars, ipc_vars, launcher>>

\* Message::LoggedInFinished(Ok(token)), with username in the login form
LoggedInFinishedOk(i, username, token) ==
    /\ app = "running"
    /\ i \in 1..Len(Tasks(msgs))
    /\ msgs[TaskAt(i)].task = "login"
    /\ LET r == logged_in(config, username, token)
       IN  config' = r.config /\ disk' = r.disk
    /\ screen' = "Main"
    /\ msgs' = Append(RemoveAt(msgs, TaskAt(i)), perform_fetch_games_from_config(config'))
    /\ UNCHANGED <<ret, syncs, downloads, pipes, selected_game, selected_channel, app, lock_vars, ipc_vars, launcher>>

\* Message::LoggedInFinished(Err(e))
LoggedInFinishedErr(i) ==
    /\ app = "running"
    /\ i \in 1..Len(Tasks(msgs))
    /\ msgs[TaskAt(i)].task = "login"
    /\ screen' = "Login"
    /\ msgs' = RemoveAt(msgs, TaskAt(i))
    /\ UNCHANGED <<downloads, pipes, selected_game, selected_channel, app, config_vars, lock_vars, ipc_vars, launcher>>

\* Message::FetchGames, from the buttons of the games view
FetchGames ==
    /\ app = "running"
    /\ OffersFetchGames
    /\ Len(Tasks(msgs)) < MaxTasks
    /\ msgs' = Append(msgs, perform_fetch_games_from_config(config))
    /\ UNCHANGED <<downloads, pipes, screen, selected_game, selected_channel, app, config_vars, lock_vars, ipc_vars, launcher>>

\* Message::GamesFetched(Err(e))
GamesFetchedErr(i, e) ==
    /\ app = "running"
    /\ i \in 1..Len(Tasks(msgs))
    /\ msgs[TaskAt(i)].task = "fetch"
    /\ LET r == on_games_fetched_err(config, disk, screen, e)
       IN  config' = r.config /\ disk' = r.disk /\ screen' = r.screen
    /\ msgs' = RemoveAt(msgs, TaskAt(i))
    /\ UNCHANGED <<ret, syncs, downloads, pipes, selected_game, selected_channel, app, lock_vars, ipc_vars, launcher>>

\* the assignments of Message::GamesFetched(Ok) from the outcome f of
\* games_fetched_ok: a failed sync_and_save panics in its expect, and so does
\* a failed spawn in run_release
GamesFetchedAssign(f) ==
    /\ config' = f.config
    /\ disk' = f.disk
    /\ ret' = [ op |-> "sync_and_save", ok |-> f.ok ]
    /\ IF ~f.ok
       THEN app' = "panicked" /\ UNCHANGED <<selected_game, selected_channel, launcher>>
       ELSE /\ selected_game' = f.selected_game
            /\ selected_channel' = f.selected_channel
            /\ launcher' = f.launcher
            /\ app' = IF f.panics THEN "panicked" ELSE app

\* Message::GamesFetched(Ok(games_response)): sync_and_save(..).expect(..),
\* then handle_args_game_running and, on CanPlay, run_release, which starts
\* the game and waits for its exit, or panics in its expect
GamesFetchedOk(i, games_response, spawn_ok) ==
    /\ app = "running"
    /\ i \in 1..Len(Tasks(msgs))
    /\ msgs[TaskAt(i)].task = "fetch"
    /\ launcher.launched < MaxLaunches
    /\ GamesFetchedAssign(games_fetched_ok(config, disk, launcher, selected_game,
                                           selected_channel, games_response, spawn_ok))
    /\ msgs' = RemoveAt(msgs, TaskAt(i))
    /\ UNCHANGED <<syncs, downloads, pipes, screen, lock_vars, ipc_vars>>

\* Message::ClearRequestedGameToPlay, from the close button of the issue
ClearRequestedGameToPlay ==
    /\ app = "running"
    /\ screen = "Main"
    /\ launcher.run_from_args_issue.kind = "Error"
    /\ launcher' = [ launcher EXCEPT !.requested_game_to_play = None ]
    /\ UNCHANGED <<config_vars, download_vars, lock_vars, ipc_vars>>

\* Message::Logout, from the main screen
Logout ==
    /\ app = "running"
    /\ GamesViewShown
    /\ screen' = "Login"
    /\ selected_game' = None
    /\ selected_channel' = None
    /\ launcher' = [ launcher EXCEPT !.is_playing = FALSE ]
    /\ UNCHANGED <<downloads, pipes, msgs, app, config_vars, lock_vars, ipc_vars>>

NextAccount ==
    \/ \E url \in Urls : FinishWizard(url)
    \/ \E to \in {"Wizard", "Login"} : GoToScreen(to)
    \/ \E url \in Urls : ServerChanged(url)
    \/ Login
    \/ \E i \in 1..MaxTasks, username \in Usernames, token \in Tokens :
           LoggedInFinishedOk(i, username, token)
    \/ \E i \in 1..MaxTasks : LoggedInFinishedErr(i)
    \/ FetchGames
    \/ \E i \in 1..MaxTasks, e \in FetchErrors : GamesFetchedErr(i, e)
    \/ \E i \in 1..MaxTasks, c \in AccountCatalogs, spawn_ok \in BOOLEAN :
           GamesFetchedOk(i, c, spawn_ok)
    \/ Logout

SpecAccount == InitAccount /\ [][NextAccount]_vars

\* a fetch task is in flight: GamesFetched can be the next message
FetchPending == \E i \in 1..Len(msgs) : IsTask(msgs[i]) /\ msgs[i].task = "fetch"

\* C27: handling GamesFetched(Err(e)) with a "needs re-login" kind (the
\* redirect and the 401) leaves the active account without a session token,
\* the cleared document on disk and the screen at Login; with every other
\* kind the document, and with it the games, releases and token of the
\* account, and the document on disk are what they were.
C27_FetchErrors ==
    \A e \in FetchErrors :
        FetchPending =>
            LET r == on_games_fetched_err(config, disk, screen, e)
            IN  IF e \in ReloginErrors
                THEN /\ get_active_account(r.config) # None
                     /\ get_active_account(r.config)[1].session_token = NoToken
                     /\ get_active_account(r.config)[1].games
                            = get_active_account(config)[1].games
                     /\ r.disk = r.config
                     /\ r.screen = "Login"
                ELSE /\ r.config = config
                     /\ r.disk = disk

\* an account that had logged in and synced its catalog is back at the login
\* screen without its token, on disk as in memory
C27_Witness ==
    /\ screen = "Login"
    /\ get_active_account(config) # None
    /\ get_active_account(config)[1].username # ""
    /\ get_active_account(config)[1].games # <<>>
    /\ get_active_account(config)[1].session_token = NoToken
    /\ disk = config

\* C28: a step of the update loop that changes the config document leaves
\* the same document on disk.
C28_PersistOnMutation == [][config' # config => disk' = config']_vars

\* C29: while is_active is true, exactly one account of the list carries the
\* id in active_account.
C29_ActiveAccount ==
    config.is_active =>
        Cardinality({ i \in 1..Len(config.accounts) :
                        config.accounts[i].id = config.active_account }) = 1

\* two accounts of the same server exist and the first one was picked again
\* on the login screen
C29_Witness ==
    /\ config.is_active
    /\ Len(config.accounts) = 2
    /\ config.accounts[1].url = config.accounts[2].url
    /\ config.active_account = config.accounts[1].id
    /\ disk.active_account = config.accounts[2].id

\* the ids that have a task in state Downloading
DownloadingIds(dls) ==
    { dls[i].game_name_id :
        i \in { n \in 1..Len(dls) : dls[n].state.kind = "Downloading" } }

\* the ids the batch of subscriptions holds a pipeline for
SubscribedIds(running) == { g \in GameIds : running[g] # NoPipe }

\* the ids with an event on its way to update
EventIds(queue) == { queue[i].id : i \in 1..Len(queue) }

\* C30: the ids with a pipeline are the ids with a task in state Downloading,
\* and no event of an id whose pipeline was dropped (its task Errored or
\* removed) is on its way to the update loop.
C30_PipelinesFollowTasks ==
    /\ SubscribedIds(pipes) = DownloadingIds(downloads)
    /\ EventIds(msgs) \subseteq SubscribedIds(pipes)

\* C31: a response stream that fails part-way never installs. When reading a
\* chunk failed after some bytes were received, the stream has ended with an
\* error item, has emitted no Finished, and the received buffer was neither
\* parsed nor unpacked.
C31_PartialStream ==
    \A g \in GameIds :
        (pipes[g] # NoPipe /\ pipes[g].read_failed /\ pipes[g].downloaded > 0) =>
            /\ pipes[g].pc = "ended"
            /\ \E k \in 1..Len(pipes[g].emitted) : pipes[g].emitted[k].kind = "Err"
            /\ \A k \in 1..Len(pipes[g].emitted) : pipes[g].emitted[k].kind # "Finished"
            /\ ~pipes[g].parsed
            /\ ~pipes[g].wrote

\* C32: the reconcile error is unreachable. Every merge that was run, from
\* every account state and with every catalog, catalogs that repeat a name_id
\* included, returned Ok.
C32_ReconcileNeverFails == ret.op = "sync_and_save" => ret.ok

\* two merges went through and the account holds a name_id twice, the second
\* entry orphaned, as a catalog that repeats a name_id leaves it
C32_Witness ==
    /\ ret = [ op |-> "sync_and_save", ok |-> TRUE ]
    /\ syncs = 2
    /\ \E i, j \in 1..Len(ActiveGames) :
          /\ i < j
          /\ ActiveGames[i].name_id = ActiveGames[j].name_id
          /\ ActiveGames[j].orphaned

\* the step ends the drop of process p
DropEnds(p) == procs[p].pc = "unlocked" /\ procs'[p].pc # "unlocked"

\* C33: a drop deletes only its own lock file. The step that ends a drop
\* removes the file at the path, that file is the one the process had opened
\* and locked, no other process holds the lock on it, and the removal does
\* not fail.
C33_DropRemovesOwnFile ==
    [][ \A p \in Procs :
          DropEnds(p) =>
              /\ procs'[p].pc = "exited"
              /\ lock_path = procs[p].lock_file
              /\ lock_path' = 0
              /\ inode_lock[procs[p].lock_file] = 0 ]_vars

\* the step handles the fetch task at position i of the tasks in flight
HandlesFetch(i) ==
    /\ i \in 1..Len(msgs)
    /\ IsTask(msgs[i])
    /\ msgs[i].task = "fetch"
    /\ msgs' = RemoveAt(msgs, i)

\* C34: a catalog response is merged into the account that requested it. A
\* step that changes the game list of an account handles a fetch that was
\* issued with the url and session token of that account.
C34_MergeIntoRequester ==
    [][ \A k \in 1..Len(config.accounts) :
          config'.accounts[k].games # config.accounts[k].games =>
              \E i \in 1..Len(msgs) :
                  HandlesFetch(i) /\ msgs[i].account = config.accounts[k].id ]_vars

(***************************************************************************)
(* Downloads of a session the user logs out of: the messages of the games  *)
(* view and of the streams, and Message::Logout                            *)
(***************************************************************************)
NextSession ==
    \/ \E i \in 1..Len(ActiveGames) : SelectGame(ActiveGames[i])
    \/ \E channel_name \in OfferedChannels : ChannelChanged(channel_name)
    \/ \E o \in OfferedReleases : Download(o.game, o.release)
    \/ \E g \in GameIds : CloseDownloadError(g)
    \/ DownloadingFromQueue
    \/ FinishedFromQueue
    \/ ErrFromQueue
    \/ Logout
    \/ \E g \in GameIds : PipeStart(g)
    \/ \E g \in GameIds : PipeRequestOk(g)
    \/ \E g \in GameIds : PipeRequestFailed(g)
    \/ \E g \in GameIds, len \in ChunkLens : PipeChunk(g, len)
    \/ \E g \in GameIds, fate \in Fates : PipeStreamEnd(g, fate)
    \/ \E g \in GameIds, fate \in Fates : PipeChunkFailed(g, fate)

SpecSession == InitDownload /\ [][NextSession]_vars

\* C35: download events never hit a missing target. When update handles a
\* Downloading or an error event of a game, the downloads list holds a task
\* of that game; when it handles a Finished event, a game is selected; no
\* handler of the session panics.
C35_EventsFindTarget ==
    [][ /\ (HandlesHead /\ app = "running" /\ Head(msgs).item.kind # "Finished") =>
               find_download(downloads, Head(msgs).id) # 0
        /\ (HandlesHead /\ app = "running" /\ Head(msgs).item.kind = "Finished") =>
               selected_game # None
        /\ app = "running" => app' = "running" ]_vars

\* the step handles a Finished event whose update_install_state fails, and
\* the handler returns
FinishedNotRecorded ==
    /\ HandlesHead
    /\ app = "running"
    /\ Head(msgs).item.kind = "Finished"
    /\ ret'.op = "update_install_state"
    /\ ~ret'.ok
    /\ app' = "running"

\* C37: when a Finished event is handled and update_install_state returns an
\* error, the screen after the handler returns is the Error screen and not
\* the Main screen.
C37_FailureSurfaced == [][ FinishedNotRecorded => screen' = "Error" ]_vars

(***************************************************************************)
(* main.rs: a client started with the name of a game to play               *)
(***************************************************************************)
\* what the command line asks for: nothing, a game of the library, or a game
\* the account does not have
RequestedGames == { None, Some("g1"), Some("g2") }

LaunchCatalogs ==
    { << RemoteGame("g1", 1, << [ channel |-> "stable", version |-> "1.0.0",
                                  size_bytes |-> 2, release_date |-> 1 ] >>) >>,
      << RemoteGame("g1", 1, << [ channel |-> "stable", version |-> "1.0.0",
                                  size_bytes |-> 2, release_date |-> 1 ],
                                [ channel |-> "stable", version |-> "1.1.0",
                                  size_bytes |-> 3, release_date |-> 2 ] >>) >>,
      << RemoteGame("g1", 1, << [ channel |-> "stable", version |-> "1.0.0",
                                  size_bytes |-> 2, release_date |-> 1 ],
                                [ channel |-> "stable", version |-> "1.1.0",
                                  size_bytes |-> 3, release_date |-> 0 ] >>) >>,
      << RemoteGame("g1", 1, << [ channel |-> "stable", version |-> "1.0.0",
                                  size_bytes |-> 2, release_date |-> 1 ],
                                [ channel |-> "beta", version |-> "1.1.0",
                                  size_bytes |-> 3, release_date |-> 2 ] >>) >> }

\* config.json of an earlier session: one account, logged in, with the games
\* it had
LaunchConfig(games) ==
    [ active_account |-> "account1",
      accounts |-> << [ id |-> "account1", url |-> "url1", username |-> "user1",
                        session_token |-> "id=1", games |-> games ] >>,
      is_active |-> TRUE ]

\* DropsClient::new and Message::ConfigOpened of an account with a session
\* token: the main screen, and the first fetch on its way
InitLaunch ==
    /\ \E games \in LoadedGameLists : config = LaunchConfig(games)
    /\ disk = config
    /\ ret = NoReturn
    /\ syncs = 0
    /\ downloads = <<>>
    /\ pipes = [ g \in GameIds |-> NoPipe ]
    /\ msgs = << perform_fetch_games_from_config(config) >>
    /\ screen = "Main"
    /\ selected_game = None
    /\ selected_channel = None
    /\ app = "running"
    /\ InitLockIdle
    /\ InitIpcIdle
    /\ \E requested \in RequestedGames :
          launcher = [ requested_game_to_play |-> requested,
                       run_from_args_issue |-> [ kind |-> "NotSet" ], launched |-> 0,
                       is_playing |-> FALSE ]

NextLaunch ==
    \/ FetchGames
    \/ \E i \in 1..Len(ActiveGames) : SelectGame(ActiveGames[i])
    \/ \E channel_name \in OfferedChannels : ChannelChanged(channel_name)
    \/ \E g \in GameIds : CloseDownloadError(g)
    \/ DownloadingFromQueue
    \/ FinishedFromQueue
    \/ ErrFromQueue
    \/ \E g \in GameIds : PipeStart(g)
    \/ \E g \in GameIds : PipeRequestOk(g)
    \/ \E g \in GameIds : PipeRequestFailed(g)
    \/ \E g \in GameIds, len \in ChunkLens : PipeChunk(g, len)
    \/ \E g \in GameIds, fate \in Fates : PipeStreamEnd(g, fate)
    \/ \E g \in GameIds, fate \in Fates : PipeChunkFailed(g, fate)
    \/ \E o \in OfferedReleases : Download(o.game, o.release)
    \/ \E release \in OfferedRuns, spawn_ok \in BOOLEAN : Run(release, spawn_ok)
    \/ \E i \in 1..MaxTasks, c \in LaunchCatalogs, spawn_ok \in BOOLEAN :
           GamesFetchedOk(i, c, spawn_ok)
    \/ \E i \in 1..MaxTasks, e \in FetchErrors : GamesFetchedErr(i, e)
    \/ ClearRequestedGameToPlay
    \/ Logout
    \/ Login
    \/ \E i \in 1..MaxTasks, username \in Usernames, token \in Tokens :
           LoggedInFinishedOk(i, username, token)
    \/ \E i \in 1..MaxTasks : LoggedInFinishedErr(i)

SpecLaunch == InitLaunch /\ [][NextLaunch]_vars

\* C36: the game requested on the command line is launched at most once per
\* process, whatever fetches, logouts and logins follow.
C36_LaunchedOnce == launcher.launched <= 1

(***************************************************************************)
(* client_config.rs: install records in a document of two accounts         *)
(***************************************************************************)
ReleaseStates == {"NotInstalled", "Installed"}

\* the libraries of the two accounts: one installed game, or two games with
\* nothing installed
InstallLibraries == { <<LoadedGame>>, LoadedLibrary }

SecondAccount(games) ==
    [ id |-> "account2", url |-> "url2", session_token |-> "id=2", games |-> games ]

InitInstall ==
    /\ \E first \in InstallLibraries, second \in InstallLibraries,
          active \in {"account1", "account2"} :
          config = [ active_account |-> active,
                     accounts |-> << FirstAccount(first), SecondAccount(second) >>,
                     is_active |-> TRUE ]
    /\ disk = config
    /\ ret = NoReturn
    /\ syncs = 0
    /\ InitDownloadIdle
    /\ InitLockIdle
    /\ InitIpcIdle
    /\ InitLauncherIdle

NextInstall ==
    \/ \E c \in DownloadCatalogs : SyncAndSave(c)
    \/ \E g \in GameIds, r \in RemoteReleases :
          UpdateInstallState(g, r.version, r.channel)

SpecInstall == InitInstall /\ [][NextInstall]_vars

\* release j of game i of the game list matches the arguments
MatchesRelease(games, i, j, g, version, channel) ==
    /\ games[i].name_id = g
    /\ games[i].releases[j].version = version
    /\ games[i].releases[j].channel_name = channel

\* the game lists differ at most in the state of release j of game i, which
\* is st in the second list
OnlyStateAt(before, after, i, j, st) ==
    /\ Len(after) = Len(before)
    /\ \A k \in 1..Len(before) :
          /\ [ after[k] EXCEPT !.releases = before[k].releases ] = before[k]
          /\ Len(after[k].releases) = Len(before[k].releases)
          /\ \A n \in 1..Len(before[k].releases) :
                IF k = i /\ n = j
                THEN /\ after[k].releases[n].state = st
                     /\ [ after[k].releases[n] EXCEPT !.state = before[k].releases[n].state ]
                            = before[k].releases[n]
                ELSE after[k].releases[n] = before[k].releases[n]

\* the documents differ at most in the game list of the active account
OnlyActiveGames(before, after) ==
    /\ after.active_account = before.active_account
    /\ after.is_active = before.is_active
    /\ Len(after.accounts) = Len(before.accounts)
    /\ \A a \in 1..Len(before.accounts) :
          IF a = active_index(before)
          THEN [ after.accounts[a] EXCEPT !.games = before.accounts[a].games ]
                   = before.accounts[a]
          ELSE after.accounts[a] = before.accounts[a]

\* the frame of one call of update_install_state on the document and the disk
NarrowFrame(cfg, dsk, g, version, channel, st) ==
    LET u == update_install_state(cfg, dsk, g, version, channel, st)
        before == get_active_account(cfg)[1].games
        after == get_active_account(u.config)[1].games
        places == UNION { { <<i, j>> : j \in 1..Len(before[i].releases) } :
                          i \in 1..Len(before) }
        matches == { ij \in places :
                       MatchesRelease(before, ij[1], ij[2], g, version, channel) }
    IN  /\ matches = {} => ~u.ok
        /\ u.ok => /\ OnlyActiveGames(cfg, u.config)
                   /\ \E ij \in matches : OnlyStateAt(before, after, ij[1], ij[2], st)
                   /\ u.disk = u.config
        /\ ~u.ok => u.config = cfg /\ u.disk = dsk

\* C38: a successful update_install_state changes the state field of one
\* release, one that matches the game name_id, version and channel, and leaves
\* every other release, game and account as it was; when no game or release
\* matches it returns an error, and an error changes and persists nothing.
C38_NarrowFrame ==
    get_active_account(config) # None =>
        \A g \in GameIds, r \in RemoteReleases, st \in ReleaseStates :
            NarrowFrame(config, disk, g, r.version, r.channel, st)

\* an install was recorded in an account with a second release of the same
\* game left NotInstalled, next to another account that has the same release
C38_Witness ==
    /\ ret = [ op |-> "update_install_state", ok |-> TRUE ]
    /\ get_active_account(config) # None
    /\ Len(config.accounts) = 2
    /\ \E i \in 1..Len(ActiveGames) :
          /\ Len(ActiveGames[i].releases) = 2
          /\ ActiveGames[i].releases[1].state # ActiveGames[i].releases[2].state
    /\ \E a \in 1..2 :
          /\ a # active_index(config)
          /\ config.accounts[a].games # <<>>
          /\ config.accounts[a].games[1].releases # <<>>
          /\ config.accounts[a].games[1].releases[1].state = "NotInstalled"

====
